---- MODULE Spec2Model ----
(***************************************************************************)
(* Roadmap generation and traversal engine of skillforge-ai.               *)
(*                                                                         *)
(*   - ordered_nodes (app/src/pages/roadmap_view.rs): linearization of a   *)
(*     roadmap's node graph for display.                                   *)
(*   - generate_roadmap_with_llm (app/src/server_functions.rs): id         *)
(*     assignment and name -> id reference resolution of the nodes the     *)
(*     generative backend returned.                                        *)
(*   - search_vector_db_multi_query (app/src/server_functions.rs): the     *)
(*     merge of the per-query similarity hits into the candidate list.     *)
(*   - generate_roadmap (app/src/server_functions.rs): the request that    *)
(*     runs query expansion, retrieval, synthesis and persists a roadmap.  *)
(*   - toggle_node_completion (app/src/server_functions.rs): the           *)
(*     read-modify-write of one node's completion flag, one call at a      *)
(*     time with the page's re-read (get_roadmap), and two calls whose     *)
(*     store operations interleave.                                        *)
(*   - CreateRoadmap (app/src/pages/create_roadmap.rs): the quiz that      *)
(*     collects the responses handed to generate_roadmap.                  *)
(*                                                                         *)
(* Strings are finite sequences of character codes (0 is a whitespace      *)
(* character), compared as Rust compares String: by bytes,                 *)
(* lexicographically.  Option<T> is a sequence of length at most one:      *)
(* None is <<>> and Some(x) is <<x>>.                                      *)
(***************************************************************************)
EXTENDS Integers, Sequences, FiniteSets, TLC

VARIABLES
    \* ---- ordered_nodes ----
    nodes,        \* roadmap.nodes, the stored Vec<RoadmapNode>
    lin_pc,       \* position inside ordered_nodes
    heads,        \* the sorted head candidates still to be walked
    cur_id,       \* cur_id of the walk in progress
    visited,      \* HashSet<String> of ids already inserted
    out,          \* the output vector built so far
    walk_len,     \* nodes pushed by the walk of the current head
    walk_iters,   \* iterations of the loop the current walk has finished
    hash_seed,    \* RandomState of the HashMap/HashSet of this call
    last_call,    \* Option: the previous call's seed and returned vector
    \* ---- generate_roadmap_with_llm ----
    gen_pc,       \* position inside generate_roadmap_with_llm
    backend,      \* the nodes parsed from the generative backend's answer
    nodes_out,    \* nodes_out.nodes, rewritten in place
    name_to_id,   \* HashMap<String, String> skill_name -> id
    fresh,        \* ids Uuid::new_v4 has not handed out yet
    \* ---- the database and the clock ----
    roadmaps,     \* table roadmaps: record id -> RoadmapDB
    now,          \* the value Utc::now() returns
    calls,        \* the calls made to the backends and the store, in order
    \* ---- search_vector_db_multi_query ----
    sv_pc,        \* position inside search_vector_db_multi_query
    corpus,       \* number of records of table courses
    queries,      \* the argument: the query strings
    qi,           \* index of the query the for loop is at
    all_results,  \* HashMap<RecordId, CoursesDataWithEmbeddings>
    first_hit,    \* the keys of all_results in the order of their first insert
    sv_result,    \* Option: the Result the function returned
    \* ---- generate_roadmap ----
    rm_pc,        \* position inside generate_roadmap
    request,      \* the arguments skill_name, session_token, responses
    rm_result,    \* Option: the Result the server function returned
    \* ---- toggle_node_completion ----
    tg_pc,        \* position inside toggle_node_completion
    tg_args,      \* the arguments roadmap_id, node_id
    tg_roadmap,   \* the local RoadmapDB read by db.select
    tg_result,    \* Option: the Result the server function returned
    tg_log,       \* the finished calls: arguments, result, table before and after
    tg_view,      \* Option: the Result of the page's last get_roadmap
    \* ---- toggle_node_completion, calls in flight at the same time ----
    cl_pc,        \* per call: its position inside toggle_node_completion
    cl_args,      \* per call: the arguments roadmap_id, node_id
    cl_roadmap,   \* per call: the local RoadmapDB read by db.select
    cl_log,       \* the reads and writes of the store, in order
    \* ---- CreateRoadmap ----
    qz_step,      \* step: FlowStep
    qz_questions, \* questions: the ids of the Vec<Question>
    qz_idx,       \* current_question_idx
    qz_responses, \* responses: Vec<QuestionResponse>
    qz_answer,    \* current_answer: Vec<String>
    qz_error,     \* error: Option<String>
    qz_sent       \* the responses of every generate_roadmap call, in order

vars == <<nodes, lin_pc, heads, cur_id, visited, out, walk_len, walk_iters,
          hash_seed, last_call, gen_pc, backend, nodes_out, name_to_id, fresh,
          roadmaps, now, calls, sv_pc, corpus, queries, qi, all_results,
          first_hit, sv_result, rm_pc, request, rm_result, tg_pc, tg_args,
          tg_roadmap, tg_result, tg_log, tg_view, cl_pc, cl_args, cl_roadmap,
          cl_log, qz_step, qz_questions, qz_idx, qz_responses, qz_answer,
          qz_error, qz_sent>>

linVars == <<nodes, lin_pc, heads, cur_id, visited, out, walk_len, walk_iters,
             hash_seed, last_call>>

genVars == <<gen_pc, backend, nodes_out, name_to_id, fresh>>

dbVars == <<roadmaps, now, calls>>

svVars == <<sv_pc, corpus, queries, qi, all_results, first_hit, sv_result>>

rmVars == <<rm_pc, request, rm_result>>

tgVars == <<tg_pc, tg_args, tg_roadmap, tg_result, tg_log, tg_view>>

clVars == <<cl_pc, cl_args, cl_roadmap, cl_log>>

qzVars == <<qz_step, qz_questions, qz_idx, qz_responses, qz_answer, qz_error,
            qz_sent>>

(***************************************************************************)
(* Bounds of the model.                                                    *)
(***************************************************************************)
\* largest number of nodes of a roadmap with arbitrary names and links
\* handed to ordered_nodes
MaxNodes == 2

\* largest number of nodes of a roadmap that is rendered twice
MaxRenderNodes == 2

\* number of distinct hash seeds (iteration orders) a HashMap can get
NumSeeds == 2

\* largest number of nodes in an answer of the generative backend with
\* arbitrary ids and completion flags
MaxGenNodes == 1

\* largest number of references (prerequisites entries, prev and next
\* names) in such an answer
MaxRefs == 1

(***************************************************************************)
(* Strings and options.                                                    *)
(***************************************************************************)
None == <<>>

Some(x) == <<x>>

IsSome(o) == Len(o) = 1

Unwrap(o) == o[1]

\* Ord for String: -1 (Less), 0 (Equal), 1 (Greater)
RECURSIVE StrCmpFrom(_, _, _)
StrCmpFrom(a, b, i) ==
    IF i > Len(a) /\ i > Len(b) THEN 0
    ELSE IF i > Len(a) THEN -1
    ELSE IF i > Len(b) THEN 1
    ELSE IF a[i] < b[i] THEN -1
    ELSE IF a[i] > b[i] THEN 1
    ELSE StrCmpFrom(a, b, i + 1)

StrCmp(a, b) == StrCmpFrom(a, b, 1)

\* the string form of the k-th identifier Uuid::new_v4 can return
Uuid(k) == <<9, k>>

Range(s) == {s[i] : i \in 1..Len(s)}

(***************************************************************************)
(* ordered_nodes                                                           *)
(***************************************************************************)

\* by_id: the last node of the list wins for an id that occurs twice
by_id(ns) ==
    [k \in {ns[i].id : i \in 1..Len(ns)} |->
        ns[CHOOSE i \in 1..Len(ns) :
              /\ ns[i].id = k
              /\ \A j \in 1..Len(ns) : ns[j].id = k => j <= i]]

\* the order in which a HashMap with this seed iterates over its keys
IterOrder(keys, seed) ==
    LET n == Cardinality(keys)
        asc == [i \in 1..n |->
                   CHOOSE k \in keys :
                       Cardinality({m \in keys : StrCmp(m, k) < 0}) = i - 1]
    IN [i \in 1..n |-> asc[((i - 1 + seed) % n) + 1]]

\* slice::sort_by(|a, b| a.skill_name.cmp(&b.skill_name)): a stable sort
SortBySkillName(s) ==
    LET Insert(sorted, x) ==
            LET p == Cardinality({i \in 1..Len(sorted) :
                         StrCmp(sorted[i].skill_name, x.skill_name) <= 0})
            IN SubSeq(sorted, 1, p) \o <<x>> \o SubSeq(sorted, p + 1, Len(sorted))
        F[i \in 0..Len(s)] ==
            IF i = 0 THEN <<>> ELSE Insert(F[i - 1], s[i])
    IN F[Len(s)]

\* slip of IsHead: only a null prev_node_id makes a head
IsHeadNullOnly(ns, n) == ~IsSome(n.prev_node_id)

\* the filter of lines 309-319: prev_node_id is None or is no key of by_id
IsHead(ns, n) ==
    \/ ~IsSome(n.prev_node_id)
    \/ Unwrap(n.prev_node_id) \notin DOMAIN by_id(ns)

\* slips of HeadCandidates: the heads taken from by_id.values(), in the
\* map's iteration order; the fallback to all nodes forgotten; the sort
\* forgotten
HeadCandidatesMapOrder(ns) ==
    LET ord == IterOrder(DOMAIN by_id(ns), hash_seed)
        vals == [i \in 1..Len(ord) |-> by_id(ns)[ord[i]]]
        raw == SelectSeq(vals, LAMBDA n : IsHead(ns, n))
    IN SortBySkillName(IF raw = <<>> THEN vals ELSE raw)

HeadCandidatesNoFallback(ns) ==
    SortBySkillName(SelectSeq(ns, LAMBDA n : IsHead(ns, n)))

HeadCandidatesUnsorted(ns) ==
    LET raw == SelectSeq(ns, LAMBDA n : IsHead(ns, n))
    IN IF raw = <<>> THEN ns ELSE raw

\* slip of HeadCandidates: the heads not yet completed are put first
HeadCandidatesIncompleteFirst(ns) ==
    LET raw == SelectSeq(ns, LAMBDA n : IsHead(ns, n))
        base == IF raw = <<>> THEN ns ELSE raw
    IN SortBySkillName(SelectSeq(base, LAMBDA n : ~n.is_completed))
       \o SortBySkillName(SelectSeq(base, LAMBDA n : n.is_completed))

HeadCandidates(ns) ==
    LET raw == SelectSeq(ns, LAMBDA n : IsHead(ns, n))
    IN SortBySkillName(IF raw = <<>> THEN ns ELSE raw)

\* slip of LoopBody: the next link is never followed
LoopBodyNoFollow(ns, cur, vis, o) ==
    IF cur \in vis
    THEN [brk |-> TRUE, cur |-> cur, visited |-> vis, out |-> o]
    ELSE IF cur \notin DOMAIN by_id(ns)
    THEN [brk |-> TRUE, cur |-> cur, visited |-> vis \cup {cur}, out |-> o]
    ELSE [brk |-> TRUE, cur |-> cur, visited |-> vis \cup {cur},
          out |-> Append(o, by_id(ns)[cur])]

\* slip of LoopBody: the visited check (the cycle guard) forgotten
LoopBodyNoGuard(ns, cur, vis, o) ==
    IF cur \notin DOMAIN by_id(ns)
    THEN [brk |-> TRUE, cur |-> cur, visited |-> vis \cup {cur}, out |-> o]
    ELSE LET node == by_id(ns)[cur]
             nxt == node.next_node_id
         IN IF IsSome(nxt) /\ Unwrap(nxt) \in DOMAIN by_id(ns)
            THEN [brk |-> FALSE, cur |-> Unwrap(nxt),
                  visited |-> vis \cup {cur}, out |-> Append(o, node)]
            ELSE [brk |-> TRUE, cur |-> cur,
                  visited |-> vis \cup {cur}, out |-> Append(o, node)]

\* one iteration of the loop of lines 331-343
LoopBody(ns, cur, vis, o) ==
    IF cur \in vis
    THEN [brk |-> TRUE, cur |-> cur, visited |-> vis, out |-> o]
    ELSE IF cur \notin DOMAIN by_id(ns)
    THEN [brk |-> TRUE, cur |-> cur, visited |-> vis \cup {cur}, out |-> o]
    ELSE LET node == by_id(ns)[cur]
             nxt == node.next_node_id
         IN IF IsSome(nxt) /\ Unwrap(nxt) \in DOMAIN by_id(ns)
            THEN [brk |-> FALSE, cur |-> Unwrap(nxt),
                  visited |-> vis \cup {cur}, out |-> Append(o, node)]
            ELSE [brk |-> TRUE, cur |-> cur,
                  visited |-> vis \cup {cur}, out |-> Append(o, node)]

\* slip of Remaining: the unvisited nodes appended in list order
RemainingUnsorted(ns, vis) == SelectSeq(ns, LAMBDA n : n.id \notin vis)

\* slip of Remaining: the sweep of the unvisited nodes forgotten
RemainingNone(ns, vis) == <<>>

Remaining(ns, vis) ==
    SortBySkillName(SelectSeq(ns, LAMBDA n : n.id \notin vis))

\* the whole function, as the value it returns
RECURSIVE WalkFrom(_, _, _, _)
WalkFrom(ns, cur, vis, o) ==
    LET r == LoopBody(ns, cur, vis, o)
    IN IF r.brk THEN r ELSE WalkFrom(ns, r.cur, r.visited, r.out)

RECURSIVE WalkHeads(_, _, _, _)
WalkHeads(ns, hs, vis, o) ==
    IF hs = <<>> THEN [visited |-> vis, out |-> o]
    ELSE LET r == WalkFrom(ns, Head(hs).id, vis, o)
         IN WalkHeads(ns, Tail(hs), r.visited, r.out)

ordered_nodes(ns) ==
    LET w == WalkHeads(ns, HeadCandidates(ns), {}, <<>>)
    IN w.out \o Remaining(ns, w.visited)

(***************************************************************************)
(* The roadmaps ordered_nodes is called on.  A stored roadmap went through *)
(* generate_roadmap_with_llm: its ids are distinct uuids, and a link is    *)
(* None, the id of a node, or a raw name that matched no node.             *)
(* ordered_nodes is run on every roadmap of up to MaxNodes nodes over two   *)
(* names and on the three-node roadmaps of the scenarios A, B, C.          *)
(* Character codes: 1, 2, 3 stand for the letters A, B, C.                 *)
(***************************************************************************)
NameA == <<1>>

NameB == <<2>>

NameC == <<3>>

SkillNames == {NameA, NameB, NameC}

RawName == <<7>>

LinkValues(n) == {None, Some(RawName)} \cup {Some(Uuid(i)) : i \in 1..n}

MkNode(i, name, prev, next) ==
    [id |-> Uuid(i), skill_name |-> name, prerequisites |-> <<>>,
     is_completed |-> FALSE, prev_node_id |-> prev, next_node_id |-> next]

RoadmapsOver(n, names, links) ==
    LET Shape == [name : names, prev : links, next : links]
    IN {[i \in 1..n |-> MkNode(i, f[i].name, f[i].prev, f[i].next)] :
            f \in [1..n -> Shape]}

\* every roadmap of n nodes: names that tie or differ, every link value
Roadmaps(n) == RoadmapsOver(n, {NameA, NameB}, LinkValues(n))

\* the three nodes A, B, C in every list order, every link null or resolving
ScenarioRoadmaps ==
    {r \in RoadmapsOver(3, SkillNames, LinkValues(3) \ {Some(RawName)}) :
        {r[i].skill_name : i \in 1..3} = SkillNames}

\* roadmaps with names that tie and links that all resolve
RenderRoadmaps(n) ==
    RoadmapsOver(n, {NameA, NameB}, LinkValues(n) \ {Some(RawName)})

Seeds == 0..(NumSeeds - 1)

InitLin ==
    /\ \/ \E n \in 0..MaxNodes : nodes \in Roadmaps(n)
       \/ nodes \in ScenarioRoadmaps
    /\ hash_seed = 0
    /\ lin_pc = "start"
    /\ heads = <<>>
    /\ cur_id = None
    /\ visited = {}
    /\ out = <<>>
    /\ walk_len = 0
    /\ walk_iters = 0
    /\ last_call = None
    /\ gen_pc = "idle"
    /\ backend = <<>>
    /\ nodes_out = <<>>
    /\ name_to_id = <<>>
    /\ fresh = {}
    /\ roadmaps = <<>>
    /\ now = 0
    /\ calls = <<>>
    /\ sv_pc = "idle"
    /\ corpus = 0
    /\ queries = <<>>
    /\ qi = 1
    /\ all_results = <<>>
    /\ first_hit = <<>>
    /\ sv_result = None
    /\ rm_pc = "idle"
    /\ request = <<>>
    /\ rm_result = None
    /\ tg_pc = "idle"
    /\ tg_args = <<>>
    /\ tg_roadmap = <<>>
    /\ tg_result = None
    /\ tg_log = <<>>
    /\ tg_view = None
    /\ cl_pc = <<>>
    /\ cl_args = <<>>
    /\ cl_roadmap = <<>>
    /\ cl_log = <<>>
    /\ qz_step = "SkillInput"
    /\ qz_questions = <<>>
    /\ qz_idx = 0
    /\ qz_responses = <<>>
    /\ qz_answer = <<>>
    /\ qz_error = None
    /\ qz_sent = <<>>

InitRender ==
    /\ \E n \in 0..MaxRenderNodes : nodes \in RenderRoadmaps(n)
    /\ hash_seed \in Seeds
    /\ lin_pc = "start"
    /\ heads = <<>>
    /\ cur_id = None
    /\ visited = {}
    /\ out = <<>>
    /\ walk_len = 0
    /\ walk_iters = 0
    /\ last_call = None
    /\ gen_pc = "idle"
    /\ backend = <<>>
    /\ nodes_out = <<>>
    /\ name_to_id = <<>>
    /\ fresh = {}
    /\ roadmaps = <<>>
    /\ now = 0
    /\ calls = <<>>
    /\ sv_pc = "idle"
    /\ corpus = 0
    /\ queries = <<>>
    /\ qi = 1
    /\ all_results = <<>>
    /\ first_hit = <<>>
    /\ sv_result = None
    /\ rm_pc = "idle"
    /\ request = <<>>
    /\ rm_result = None
    /\ tg_pc = "idle"
    /\ tg_args = <<>>
    /\ tg_roadmap = <<>>
    /\ tg_result = None
    /\ tg_log = <<>>
    /\ tg_view = None
    /\ cl_pc = <<>>
    /\ cl_args = <<>>
    /\ cl_roadmap = <<>>
    /\ cl_log = <<>>
    /\ qz_step = "SkillInput"
    /\ qz_questions = <<>>
    /\ qz_idx = 0
    /\ qz_responses = <<>>
    /\ qz_answer = <<>>
    /\ qz_error = None
    /\ qz_sent = <<>>

\* lines 302-327: by_id, the sorted head candidates, empty visited and out
BuildHeads ==
    /\ lin_pc = "start"
    /\ heads' = HeadCandidates(nodes)
    /\ visited' = {}
    /\ out' = <<>>
    /\ cur_id' = None
    /\ walk_len' = 0
    /\ walk_iters' = 0
    /\ lin_pc' = "for"
    /\ UNCHANGED <<nodes, hash_seed, last_call>>
    /\ UNCHANGED <<genVars, dbVars, svVars, rmVars, tgVars, clVars, qzVars>>

\* lines 329-330: the next head of the for loop, or the end of the loop
NextHead ==
    /\ lin_pc = "for"
    /\ IF heads = <<>>
       THEN /\ lin_pc' = "remaining"
            /\ UNCHANGED <<heads, cur_id>>
       ELSE /\ cur_id' = Some(Head(heads).id)
            /\ heads' = Tail(heads)
            /\ lin_pc' = "loop"
    /\ walk_len' = 0
    /\ walk_iters' = 0
    /\ UNCHANGED <<nodes, visited, out, hash_seed, last_call>>
    /\ UNCHANGED <<genVars, dbVars, svVars, rmVars, tgVars, clVars, qzVars>>

\* lines 331-343: one iteration of the walk
WalkStep ==
    /\ lin_pc = "loop"
    /\ LET r == LoopBody(nodes, Unwrap(cur_id), visited, out)
       IN /\ visited' = r.visited
          /\ out' = r.out
          /\ cur_id' = Some(r.cur)
          /\ walk_len' = walk_len + (Len(r.out) - Len(out))
          /\ lin_pc' = IF r.brk THEN "for" ELSE "loop"
    /\ walk_iters' = walk_iters + 1
    /\ UNCHANGED <<nodes, heads, hash_seed, last_call>>
    /\ UNCHANGED <<genVars, dbVars, svVars, rmVars, tgVars, clVars, qzVars>>

\* lines 346-355: the nodes no walk reached, sorted, and the return
AppendRemaining ==
    /\ lin_pc = "remaining"
    /\ out' = out \o Remaining(nodes, visited)
    /\ lin_pc' = "done"
    /\ UNCHANGED <<nodes, heads, cur_id, visited, walk_len, walk_iters,
                   hash_seed, last_call>>
    /\ UNCHANGED <<genVars, dbVars, svVars, rmVars, tgVars, clVars, qzVars>>

\* roadmap_view.rs line 65: every render calls ordered_nodes again, with
\* freshly seeded collections
RenderAgain ==
    /\ lin_pc = "done"
    /\ last_call = None
    /\ last_call' = Some([seed |-> hash_seed, out |-> out])
    /\ hash_seed' \in Seeds
    /\ lin_pc' = "start"
    /\ UNCHANGED <<nodes, heads, cur_id, visited, out, walk_len, walk_iters>>
    /\ UNCHANGED <<genVars, dbVars, svVars, rmVars, tgVars, clVars, qzVars>>

NextLin ==
    \/ BuildHeads
    \/ NextHead
    \/ WalkStep
    \/ AppendRemaining

NextRender ==
    \/ BuildHeads
    \/ NextHead
    \/ WalkStep
    \/ AppendRemaining
    \/ RenderAgain

SpecLin == InitLin /\ [][NextLin]_vars

SpecRender == InitRender /\ [][NextRender]_vars

(***************************************************************************)
(* generate_roadmap_with_llm, from the parsed answer of the backend on     *)
(***************************************************************************)
IsWhitespace(c) == c = 0

\* str::trim: the string without its leading and trailing whitespace
RECURSIVE TrimStart(_)
TrimStart(s) ==
    IF s # <<>> /\ IsWhitespace(Head(s)) THEN TrimStart(Tail(s)) ELSE s

RECURSIVE TrimEnd(_)
TrimEnd(s) ==
    IF s # <<>> /\ IsWhitespace(s[Len(s)])
    THEN TrimEnd(SubSeq(s, 1, Len(s) - 1)) ELSE s

Trim(s) == TrimEnd(TrimStart(s))

\* slip of AssignedNode: an id the backend supplied is kept
AssignedNodeKeepId(n, u) ==
    [n EXCEPT !.id = IF n.id = <<>> THEN u ELSE n.id, !.is_completed = FALSE]

\* lines 635-636: the body of the first loop
AssignedNode(n, u) == [n EXCEPT !.id = u, !.is_completed = FALSE]

\* slip of NameToId: the first node of a name keeps the entry
NameToIdFirstWins(ns) ==
    [name \in {ns[i].skill_name : i \in 1..Len(ns)} |->
        ns[CHOOSE i \in 1..Len(ns) :
              /\ ns[i].skill_name = name
              /\ \A j \in 1..Len(ns) : ns[j].skill_name = name => i <= j].id]

\* lines 639-643: collect() into a HashMap, a later pair overwrites an
\* earlier pair with the same key
NameToId(ns) ==
    [name \in {ns[i].skill_name : i \in 1..Len(ns)} |->
        ns[CHOOSE i \in 1..Len(ns) :
              /\ ns[i].skill_name = name
              /\ \A j \in 1..Len(ns) : ns[j].skill_name = name => j <= i].id]

\* slip of map_ref: a name without a match is dropped to the empty string
map_ref_or_default(table, s) == IF s \in DOMAIN table THEN table[s] ELSE <<>>

\* lines 645-646
map_ref(table, s) == IF s \in DOMAIN table THEN table[s] ELSE s

\* slips of ResolveLink: the trim forgotten; the empty test made before the
\* trim
ResolveLinkNoTrim(table, link) ==
    IF ~IsSome(link) \/ Unwrap(link) = <<>> THEN None
    ELSE Some(map_ref(table, Unwrap(link)))

ResolveLinkFilterFirst(table, link) ==
    IF ~IsSome(link) \/ Unwrap(link) = <<>> THEN None
    ELSE Some(map_ref(table, Trim(Unwrap(link))))

\* slip of ResolveLink: a name without a match is nulled
ResolveLinkDropUnmatched(table, link) ==
    IF ~IsSome(link) \/ Trim(Unwrap(link)) \notin DOMAIN table THEN None
    ELSE Some(table[Trim(Unwrap(link))])

\* lines 651-656 and 658-663: as_ref().map(trim).filter(!is_empty).map(map_ref)
ResolveLink(table, link) ==
    IF ~IsSome(link) THEN None
    ELSE LET t == Trim(Unwrap(link))
         IN IF t = <<>> THEN None ELSE Some(map_ref(table, t))

\* lines 649-663: the body of the second loop
ResolveNode(table, n) ==
    [n EXCEPT
        !.prerequisites = [k \in 1..Len(@) |-> map_ref(table, @[k])],
        !.prev_node_id = ResolveLink(table, @),
        !.next_node_id = ResolveLink(table, @)]

(***************************************************************************)
(* The answers of the generative backend that pass parsing: any skill      *)
(* names (twice the same, padded with whitespace, or spelled like a uuid), *)
(* an id and a completion flag of the backend's choosing, and references   *)
(* that are a name, a padded name, empty or blank.  Code 0 is a space.     *)
(* The function is run on every answer of up to MaxGenNodes nodes with up  *)
(* to MaxRefs references and on the two-node answers of the scenarios.     *)
(***************************************************************************)
PaddedA == <<0, 1>>

EmptyStr == <<>>

Blank == <<0>>

GenNames == {NameA, NameB, PaddedA, Uuid(1)}

BackendIds == {EmptyStr, NameA}

RefNames == {NameA, NameB, PaddedA, EmptyStr, Blank}

RefFields == {"prerequisites", "prev_node_id", "next_node_id"}

NodeShapes == [name : GenNames, id : BackendIds, done : BOOLEAN]

BareNodes(n, shapes) ==
    {[i \in 1..n |->
        [id |-> f[i].id, skill_name |-> f[i].name, prerequisites |-> <<>>,
         is_completed |-> f[i].done, prev_node_id |-> None,
         next_node_id |-> None]] : f \in [1..n -> shapes]}

\* the answer ns with one more reference: an entry appended to the
\* prerequisites of node r.node, or its prev or next set
WithRef(ns, r) ==
    [ns EXCEPT ![r.node] =
        IF r.field = "prerequisites"
        THEN [@ EXCEPT !.prerequisites = Append(@, r.name)]
        ELSE IF r.field = "prev_node_id"
        THEN [@ EXCEPT !.prev_node_id = Some(r.name)]
        ELSE [@ EXCEPT !.next_node_id = Some(r.name)]]

RECURSIVE WithRefs(_, _)
WithRefs(ns, rs) ==
    IF rs = <<>> THEN ns ELSE WithRefs(WithRef(ns, Head(rs)), Tail(rs))

\* the answers of n nodes of these shapes with up to r references
AnswersOver(n, r, shapes) ==
    LET Ref == [node : 1..n, field : RefFields, name : RefNames]
    IN {WithRefs(ns, rs) :
            ns \in BareNodes(n, shapes),
            rs \in UNION {[1..k -> Ref] : k \in 0..r}}

BackendAnswers(n) == AnswersOver(n, MaxRefs, NodeShapes)

\* two nodes with two references, where a node either has no id and no
\* completion flag (as the prompt asks) or has both
ScenarioAnswers ==
    AnswersOver(2, 2, {sh \in NodeShapes : (sh.id = EmptyStr) <=> ~sh.done})

\* the uuids Uuid::new_v4 may return during one call
UuidPool == {Uuid(k) : k \in 1..(MaxGenNodes + 1)}

InitGen ==
    /\ gen_pc = "parsed"
    /\ \/ \E n \in 0..MaxGenNodes : backend \in BackendAnswers(n)
       \/ backend \in ScenarioAnswers
    /\ nodes_out = backend
    /\ name_to_id = <<>>
    /\ fresh = UuidPool
    /\ nodes = <<>>
    /\ hash_seed = 0
    /\ lin_pc = "start"
    /\ heads = <<>>
    /\ cur_id = None
    /\ visited = {}
    /\ out = <<>>
    /\ walk_len = 0
    /\ walk_iters = 0
    /\ last_call = None
    /\ roadmaps = <<>>
    /\ now = 0
    /\ calls = <<>>
    /\ sv_pc = "idle"
    /\ corpus = 0
    /\ queries = <<>>
    /\ qi = 1
    /\ all_results = <<>>
    /\ first_hit = <<>>
    /\ sv_result = None
    /\ rm_pc = "idle"
    /\ request = <<>>
    /\ rm_result = None
    /\ tg_pc = "idle"
    /\ tg_args = <<>>
    /\ tg_roadmap = <<>>
    /\ tg_result = None
    /\ tg_log = <<>>
    /\ tg_view = None
    /\ cl_pc = <<>>
    /\ cl_args = <<>>
    /\ cl_roadmap = <<>>
    /\ cl_log = <<>>
    /\ qz_step = "SkillInput"
    /\ qz_questions = <<>>
    /\ qz_idx = 0
    /\ qz_responses = <<>>
    /\ qz_answer = <<>>
    /\ qz_error = None
    /\ qz_sent = <<>>

\* lines 634-637: every node gets a new uuid, is_completed is cleared
AssignIds ==
    /\ gen_pc = "parsed"
    /\ \E u \in [1..Len(nodes_out) -> fresh] :
          /\ \A i, j \in 1..Len(nodes_out) : u[i] = u[j] => i = j
          /\ nodes_out' = [i \in 1..Len(nodes_out) |-> AssignedNode(nodes_out[i], u[i])]
          /\ fresh' = fresh \ {u[i] : i \in 1..Len(nodes_out)}
    /\ gen_pc' = "assigned"
    /\ UNCHANGED <<backend, name_to_id>>
    /\ UNCHANGED <<linVars, dbVars, svVars, rmVars, tgVars, clVars, qzVars>>

\* lines 639-643: the name -> id table
BuildTable ==
    /\ gen_pc = "assigned"
    /\ name_to_id' = NameToId(nodes_out)
    /\ gen_pc' = "table"
    /\ UNCHANGED <<backend, nodes_out, fresh>>
    /\ UNCHANGED <<linVars, dbVars, svVars, rmVars, tgVars, clVars, qzVars>>

\* lines 648-664: every reference is rewritten through the table
ResolveRefs ==
    /\ gen_pc = "table"
    /\ nodes_out' = [i \in 1..Len(nodes_out) |-> ResolveNode(name_to_id, nodes_out[i])]
    /\ gen_pc' = "done"
    /\ UNCHANGED <<backend, name_to_id, fresh>>
    /\ UNCHANGED <<linVars, dbVars, svVars, rmVars, tgVars, clVars, qzVars>>

NextGen ==
    \/ AssignIds
    \/ BuildTable
    \/ ResolveRefs

SpecGen == InitGen /\ [][NextGen]_vars

(***************************************************************************)
(* search_vector_db_multi_query (server_functions.rs, lines 547-580).      *)
(*                                                                         *)
(* Table courses holds the records 1..corpus.  A record is kept with its   *)
(* id and its title; the title of record k is k, so that a candidate,      *)
(* which no longer carries the id, can be traced to its record.            *)
(***************************************************************************)
\* results.truncate(20)
MaxCandidates == 20

\* LIMIT 5 of the similarity query
TopK == 5

\* largest number of query strings, of any kind, handed to the retrieval
MaxQueries == 3

\* Result<T, E>
Ok(v) == [tag |-> "Ok", value |-> v]

Err(e) == [tag |-> "Err", error |-> e]

\* an Option<Result> that is Some(Ok(_))
ReturnedOk(r) == IsSome(r) /\ Unwrap(r).tag = "Ok"

\* an Option<Result> that is Some(Err(_))
ReturnedErr(r) == IsSome(r) /\ Unwrap(r).tag = "Err"

CourseId(k) == <<6, k>>

\* CoursesDataWithEmbeddings as db.query returns it
Course(k) == [id |-> Some(CourseId(k)), title |-> k]

\* impl From<CoursesDataWithEmbeddings> for CoursesDataClean: the id and
\* the embedding are dropped
CoursesDataClean(c) == [title |-> c.title]

Query(k) == <<5, k>>

\* the record each kind of query is most similar to; the records that
\* follow it, cyclically, come next in similarity
NearestTo == <<1, 6, 11, 16, 21, 3>>

QueryStrings == {Query(k) : k \in 1..Len(NearestTo)}

\* SELECT * FROM courses WHERE embedding <|10,COSINE|> $embedding LIMIT 5:
\* the TopK records of the corpus nearest to the query, nearest first
SimilaritySearch(size, q) ==
    IF size = 0 THEN <<>>
    ELSE LET first == (NearestTo[q[2]] - 1) % size
             k == IF size < TopK THEN size ELSE TopK
         IN [i \in 1..k |-> Course(((first + i - 1) % size) + 1)]

\* lines 566-570: if let Some(id) = &course.id { all_results.insert(..) }
RECURSIVE MergeHits(_, _)
MergeHits(m, courses) ==
    IF courses = <<>> THEN m
    ELSE LET c == Head(courses)
             m1 == IF IsSome(c.id)
                   THEN [k \in DOMAIN m \cup {Unwrap(c.id)} |->
                            IF k = Unwrap(c.id) THEN c ELSE m[k]]
                   ELSE m
         IN MergeHits(m1, Tail(courses))

\* the order in which keys entered the map: a key inserted again keeps its
\* place
RECURSIVE FirstHits(_, _)
FirstHits(order, courses) ==
    IF courses = <<>> THEN order
    ELSE LET c == Head(courses)
             o1 == IF IsSome(c.id) /\ Unwrap(c.id) \notin Range(order)
                   THEN Append(order, Unwrap(c.id))
                   ELSE order
         IN FirstHits(o1, Tail(courses))

\* HashMap::into_values: the values in the iteration order of the map
IntoValues(m, seed) ==
    LET ord == IterOrder(DOMAIN m, seed)
    IN [i \in 1..Len(ord) |-> m[ord[i]]]

TruncateNone(s, n) == s

\* Vec::truncate
Truncate(s, n) == IF Len(s) <= n THEN s ELSE SubSeq(s, 1, n)

\* lines 573-577: into_values, map, collect, truncate
CollectedResults(m, seed) ==
    LET values == IntoValues(m, seed)
    IN Truncate([i \in 1..Len(values) |-> CoursesDataClean(values[i])],
                MaxCandidates)

SearchFailedPartial(m, e) == Ok(CollectedResults(m, 0))

\* the ? of lines 555-565: the error is returned, the map is dropped
SearchFailed(m, e) == Err(e)

CorpusSizes == {0, 3, 10, 25}

QueryLists(n) == [1..n -> QueryStrings]

\* five queries, in every order, that together hit every record of the
\* largest corpus
CoveringQueryLists ==
    {[i \in 1..TopK |-> Query(f[i])] :
        f \in {g \in [1..TopK -> 1..TopK] :
                  \A i, j \in 1..TopK : g[i] = g[j] => i = j}}

InitRetrieve ==
    /\ sv_pc = "call"
    /\ corpus \in CorpusSizes
    /\ \/ \E n \in 0..MaxQueries : queries \in QueryLists(n)
       \/ queries \in CoveringQueryLists
    /\ qi = 1
    /\ all_results = <<>>
    /\ first_hit = <<>>
    /\ sv_result = None
    /\ calls = <<>>
    /\ roadmaps = <<>>
    /\ now = 0
    /\ rm_pc = "idle"
    /\ request = <<>>
    /\ rm_result = None
    /\ tg_pc = "idle"
    /\ tg_args = <<>>
    /\ tg_roadmap = <<>>
    /\ tg_result = None
    /\ tg_log = <<>>
    /\ nodes = <<>>
    /\ hash_seed = 0
    /\ lin_pc = "start"
    /\ heads = <<>>
    /\ cur_id = None
    /\ visited = {}
    /\ out = <<>>
    /\ walk_len = 0
    /\ walk_iters = 0
    /\ last_call = None
    /\ gen_pc = "idle"
    /\ backend = <<>>
    /\ nodes_out = <<>>
    /\ name_to_id = <<>>
    /\ fresh = {}
    /\ tg_view = None
    /\ cl_pc = <<>>
    /\ cl_args = <<>>
    /\ cl_roadmap = <<>>
    /\ cl_log = <<>>
    /\ qz_step = "SkillInput"
    /\ qz_questions = <<>>
    /\ qz_idx = 0
    /\ qz_responses = <<>>
    /\ qz_answer = <<>>
    /\ qz_error = None
    /\ qz_sent = <<>>

\* lines 549-552: get_db, TextEmbedding::try_new, the empty map
SearchSetup ==
    /\ sv_pc = "call"
    /\ \/ /\ sv_pc' = "loop"
          /\ qi' = 1
          /\ all_results' = <<>>
          /\ first_hit' = <<>>
          /\ UNCHANGED sv_result
       \/ /\ sv_pc' = "returned"
          /\ sv_result' = Some(Err("setup"))
          /\ UNCHANGED <<qi, all_results, first_hit>>
    /\ UNCHANGED <<corpus, queries, calls, roadmaps, now>>
    /\ UNCHANGED <<linVars, genVars, rmVars, tgVars, clVars, qzVars>>

\* lines 554-571: one iteration of for query in queries
SearchQuery ==
    /\ sv_pc = "loop"
    /\ qi <= Len(queries)
    /\ \E outcome \in {"ok", "embed_error", "empty_embedding", "query_error",
                       "take_error"} :
          LET embedded == outcome \notin {"embed_error", "empty_embedding"}
              log == IF embedded
                     THEN <<[op |-> "embed", ok |-> TRUE],
                            [op |-> "search", ok |-> outcome = "ok"]>>
                     ELSE <<[op |-> "embed", ok |-> FALSE]>>
              courses == SimilaritySearch(corpus, queries[qi])
          IN /\ calls' = calls \o log
             /\ IF outcome = "ok"
                THEN /\ all_results' = MergeHits(all_results, courses)
                     /\ first_hit' = FirstHits(first_hit, courses)
                     /\ qi' = qi + 1
                     /\ UNCHANGED <<sv_pc, sv_result>>
                ELSE /\ sv_result' = Some(SearchFailed(all_results, outcome))
                     /\ sv_pc' = "returned"
                     /\ UNCHANGED <<all_results, first_hit, qi>>
    /\ UNCHANGED <<corpus, queries, roadmaps, now>>
    /\ UNCHANGED <<linVars, genVars, rmVars, tgVars, clVars, qzVars>>

\* lines 573-579: the values of the map, cut to MaxCandidates
CollectResults ==
    /\ sv_pc = "loop"
    /\ qi > Len(queries)
    /\ \E seed \in Seeds :
          sv_result' = Some(Ok(CollectedResults(all_results, seed)))
    /\ sv_pc' = "returned"
    /\ UNCHANGED <<corpus, queries, qi, all_results, first_hit>>
    /\ UNCHANGED dbVars
    /\ UNCHANGED <<linVars, genVars, rmVars, tgVars, clVars, qzVars>>

NextRetrieve ==
    \/ SearchSetup
    \/ SearchQuery
    \/ CollectResults

SpecRetrieve == InitRetrieve /\ [][NextRetrieve]_vars

(***************************************************************************)
(* generate_roadmap (server_functions.rs, lines 425-460) with              *)
(* generate_rag_queries (472-545) and call_openrouter_for_roadmap          *)
(* (764-799).                                                              *)
(*                                                                         *)
(* The text of a reply of the generative backend is a sequence of tokens:  *)
(* 0 is a whitespace character, Backticks is the three characters ```,     *)
(* JsonWord the four characters json, and the others are a complete JSON   *)
(* value or a piece of prose.                                              *)
(***************************************************************************)
\* largest number of tokens in the text of a query expansion reply
MaxTokens == 3

Backticks == 10

JsonWord == 11

ArrayOfNone == 21

ArrayOfOne == 22

ArrayOfTwo == 23

ArrayWithNumber == 24

JsonObject == 25

Prose == 26

Tokens == {0, Backticks, JsonWord, ArrayOfNone, ArrayOfOne, ArrayOfTwo,
           ArrayWithNumber, JsonObject, Prose}

\* str::trim_start_matches(pat): the pattern is removed as often as the
\* text starts with it
RECURSIVE TrimStartMatches(_, _)
TrimStartMatches(s, pat) ==
    IF Len(s) >= Len(pat) /\ SubSeq(s, 1, Len(pat)) = pat
    THEN TrimStartMatches(SubSeq(s, Len(pat) + 1, Len(s)), pat)
    ELSE s

\* str::trim_end_matches(pat)
RECURSIVE TrimEndMatches(_, _)
TrimEndMatches(s, pat) ==
    IF Len(s) >= Len(pat) /\ SubSeq(s, Len(s) - Len(pat) + 1, Len(s)) = pat
    THEN TrimEndMatches(SubSeq(s, 1, Len(s) - Len(pat)), pat)
    ELSE s

\* lines 462-470
clean_json_response(input) ==
    Trim(TrimEndMatches(
             TrimStartMatches(
                 TrimStartMatches(Trim(input), <<Backticks, JsonWord>>),
                 <<Backticks>>),
             <<Backticks>>))

\* the strings of a JSON array of strings
ArrayItems(tok) ==
    IF tok = ArrayOfOne THEN <<Query(1)>>
    ELSE IF tok = ArrayOfTwo THEN <<Query(6), Query(2)>>
    ELSE <<>>

\* the text is one JSON array of strings between optional whitespace
IsArrayOfStrings(text) ==
    /\ Len(Trim(text)) = 1
    /\ Trim(text)[1] \in {ArrayOfNone, ArrayOfOne, ArrayOfTwo}

ParseQueriesOrDefault(text) ==
    IF IsArrayOfStrings(text) THEN Ok(ArrayItems(Trim(text)[1]))
    ELSE Ok(<<Query(1)>>)

\* lines 542-543: serde_json::from_str::<Vec<String>>
ParseQueries(text) ==
    IF IsArrayOfStrings(text) THEN Ok(ArrayItems(Trim(text)[1]))
    ELSE Err("Failed to parse JSON")

\* what the HTTP call to the generative backend comes back with
FailedReplies ==
    {[kind |-> k, text |-> <<>>] :
        k \in {"send_error", "api_error", "body_error", "no_content"}}

TextReply(text) == [kind |-> "content", text |-> text]

\* the replies to query expansion: every text of up to MaxTokens tokens,
\* and an array inside a code fence on lines of its own
ExpansionReplies ==
    FailedReplies
    \cup {TextReply(t) : t \in UNION {[1..n -> Tokens] : n \in 0..MaxTokens}}
    \cup {TextReply(<<Backticks, JsonWord, 0, ArrayOfTwo, 0, Backticks>>)}

\* lines 526-544 of generate_rag_queries
generate_rag_queries(reply) ==
    IF reply.kind # "content" THEN Err(reply.kind)
    ELSE ParseQueries(clean_json_response(reply.text))

\* the nodes the synthesis reply may hold
SynthesisAnswers ==
    {<<>>} \cup BareNodes(1, [name : {NameA}, id : BackendIds, done : BOOLEAN])

\* the replies to synthesis: a failed call (call_openrouter_for_roadmap
\* does not look at the HTTP status), a text that is not a RoadmapNodesOut,
\* or one that is
SynthesisReplies ==
    {[kind |-> k, json |-> "none", nodes |-> <<>>] :
        k \in {"send_error", "body_error", "no_content"}}
    \cup {[kind |-> "content", json |-> "malformed", nodes |-> <<>>]}
    \cup {[kind |-> "content", json |-> "nodes", nodes |-> b] :
            b \in SynthesisAnswers}

\* lines 631-632: the call and serde_json::from_str::<RoadmapNodesOut>
ParseNodesOut(reply) ==
    IF reply.kind # "content" THEN Err(reply.kind)
    ELSE IF reply.json # "nodes" THEN Err("parse")
    ELSE Ok(reply.nodes)

ValidToken == <<4, 1>>

UnknownToken == <<4, 2>>

UserId(k) == <<3, k>>

RoadmapId(k) == <<8, k>>

\* lines 178-208 and 291-297: the user of a session
get_user_data(token, db_ok) ==
    IF ~db_ok THEN Err("db")
    ELSE IF token = ValidToken THEN Ok([id |-> Some(UserId(1))])
    ELSE Err("Invalid or expired session")

\* line 433: the id of the user the session stage returned
UserOf(token) ==
    LET u == get_user_data(token, TRUE)
    IN IF u.tag = "Ok" THEN Unwrap(u.value.id) ELSE EmptyStr

AfterStageIgnoreError(r, here, next) == next

AfterStageRetry(r, here, next) == IF r.tag = "Ok" THEN next ELSE here

\* the ? after a stage: an error ends the request
AfterStage(r, here, next) == IF r.tag = "Ok" THEN next ELSE "done"

\* the result the request ends with, if it ends here
Returned(r, pc) == IF pc = "done" THEN Some(r) ELSE None

\* lines 444-451
NewRoadmap(user_id, skill_name, ns, created, updated) ==
    [user_id |-> user_id, skill_name |-> skill_name, nodes |-> ns,
     created_at |-> created, updated_at |-> updated]

\* db.create("roadmaps").content(roadmap): a record under a new id
Created(table, roadmap) ==
    LET id == RoadmapId(Cardinality(DOMAIN table) + 1)
    IN [k \in DOMAIN table \cup {id} |->
           IF k = id THEN roadmap ELSE table[k]]

\* the roadmap another request stored earlier
StoredRoadmap ==
    NewRoadmap(UserId(1), NameB,
               <<MkNode(1, NameA, None, Some(Uuid(2))),
                 MkNode(2, NameB, Some(Uuid(1)), None)>>, 0, 0)

StoredTable == Created(<<>>, StoredRoadmap)

QuestionResponses == {<<>>, <<[question_id |-> Uuid(1), answer |-> <<NameA>>]>>}

Requests ==
    [skill_name : {EmptyStr, NameA},
     session_token : {ValidToken, UnknownToken},
     responses : QuestionResponses]

InitGenerate ==
    /\ rm_pc = "session"
    /\ request \in Requests
    /\ rm_result = None
    /\ roadmaps = StoredTable
    /\ now = 1
    /\ calls = <<>>
    /\ sv_pc = "idle"
    /\ corpus = 10
    /\ queries = <<>>
    /\ qi = 1
    /\ all_results = <<>>
    /\ first_hit = <<>>
    /\ sv_result = None
    /\ gen_pc = "idle"
    /\ backend = <<>>
    /\ nodes_out = <<>>
    /\ name_to_id = <<>>
    /\ fresh = UuidPool
    /\ tg_pc = "idle"
    /\ tg_args = <<>>
    /\ tg_roadmap = <<>>
    /\ tg_result = None
    /\ tg_log = <<>>
    /\ nodes = <<>>
    /\ hash_seed = 0
    /\ lin_pc = "start"
    /\ heads = <<>>
    /\ cur_id = None
    /\ visited = {}
    /\ out = <<>>
    /\ walk_len = 0
    /\ walk_iters = 0
    /\ last_call = None
    /\ tg_view = None
    /\ cl_pc = <<>>
    /\ cl_args = <<>>
    /\ cl_roadmap = <<>>
    /\ cl_log = <<>>
    /\ qz_step = "SkillInput"
    /\ qz_questions = <<>>
    /\ qz_idx = 0
    /\ qz_responses = <<>>
    /\ qz_answer = <<>>
    /\ qz_error = None
    /\ qz_sent = <<>>

\* lines 431-436: get_db, get_user_data, user.id
LookupSession ==
    /\ rm_pc = "session"
    /\ \E db_ok \in BOOLEAN :
          LET r == get_user_data(request.session_token, db_ok)
          IN /\ calls' = Append(calls, [op |-> "session", ok |-> r.tag = "Ok"])
             /\ rm_pc' = AfterStage(r, "session", "expand")
             /\ rm_result' = Returned(r, rm_pc')
    /\ UNCHANGED <<request, roadmaps, now>>
    /\ UNCHANGED <<linVars, genVars, svVars, tgVars, clVars, qzVars>>

\* lines 437-439: generate_rag_queries
ExpandQueries ==
    /\ rm_pc = "expand"
    /\ \E reply \in ExpansionReplies :
          LET r == generate_rag_queries(reply)
          IN /\ calls' = Append(calls, [op |-> "expand", ok |-> r.tag = "Ok",
                                         reply |-> reply])
             /\ rm_pc' = AfterStage(r, "expand", "retrieve")
             /\ rm_result' = Returned(r, rm_pc')
             /\ queries' = IF r.tag = "Ok" THEN r.value ELSE queries
             /\ sv_pc' = IF rm_pc' = "retrieve" THEN "call" ELSE sv_pc
    /\ UNCHANGED <<request, roadmaps, now>>
    /\ UNCHANGED <<corpus, qi, all_results, first_hit, sv_result>>
    /\ UNCHANGED <<linVars, genVars, tgVars, clVars, qzVars>>

\* line 440: the ? on the result of search_vector_db_multi_query
AfterRetrieval ==
    /\ rm_pc = "retrieve"
    /\ sv_pc = "returned"
    /\ rm_pc' = AfterStage(Unwrap(sv_result), "retrieve", "synthesize")
    /\ rm_result' = Returned(Unwrap(sv_result), rm_pc')
    /\ sv_pc' = "idle"
    /\ UNCHANGED <<request, roadmaps, now, calls>>
    /\ UNCHANGED <<corpus, queries, qi, all_results, first_hit, sv_result>>
    /\ UNCHANGED <<linVars, genVars, tgVars, clVars, qzVars>>

\* lines 441-442 and 631-632: the synthesis call and the parse of its reply
Synthesize ==
    /\ rm_pc = "synthesize"
    /\ \E reply \in SynthesisReplies :
          LET r == ParseNodesOut(reply)
          IN /\ calls' = Append(calls, [op |-> "synthesize",
                                         ok |-> r.tag = "Ok"])
             /\ rm_pc' = AfterStage(r, "synthesize", "resolve")
             /\ rm_result' = Returned(r, rm_pc')
             /\ backend' = IF r.tag = "Ok" THEN r.value ELSE backend
             /\ nodes_out' = IF r.tag = "Ok" THEN r.value ELSE nodes_out
             /\ gen_pc' = IF rm_pc' = "resolve" THEN "parsed" ELSE gen_pc
    /\ UNCHANGED <<request, roadmaps, now, name_to_id, fresh>>
    /\ UNCHANGED <<linVars, svVars, tgVars, clVars, qzVars>>

\* lines 444-459: the record is built and created
Persist ==
    /\ rm_pc = "resolve"
    /\ gen_pc = "done"
    /\ \E created \in BOOLEAN, later \in 0..1 :
          LET roadmap == NewRoadmap(
                  UserOf(request.session_token),
                  request.skill_name, nodes_out, now, now + later)
              r == IF created
                   THEN Ok(RoadmapId(Cardinality(DOMAIN roadmaps) + 1))
                   ELSE Err("create")
          IN /\ calls' = Append(calls, [op |-> "create", ok |-> created])
             /\ roadmaps' = IF created THEN Created(roadmaps, roadmap)
                            ELSE roadmaps
             /\ now' = now + later
             /\ rm_result' = Some(r)
    /\ rm_pc' = "done"
    /\ gen_pc' = "idle"
    /\ UNCHANGED <<request, backend, nodes_out, name_to_id, fresh>>
    /\ UNCHANGED <<linVars, svVars, tgVars, clVars, qzVars>>

NextGenerate ==
    \/ LookupSession
    \/ ExpandQueries
    \/ SearchSetup
    \/ SearchQuery
    \/ CollectResults
    \/ AfterRetrieval
    \/ Synthesize
    \/ AssignIds
    \/ BuildTable
    \/ ResolveRefs
    \/ Persist

SpecGenerate == InitGenerate /\ [][NextGenerate]_vars

(***************************************************************************)
(* toggle_node_completion (server_functions.rs, lines 801-823) and the     *)
(* progress figures of RoadmapProgressPill (roadmap_view.rs, 367-375).     *)
(***************************************************************************)
\* largest number of toggle_node_completion calls in a run
MaxToggles == 3

\* a string RecordId::from_str does not accept
MalformedId == <<0>>

\* line 807: RecordId::from_str(&roadmap_id)
ParseRecordId(s) ==
    IF Len(s) = 2 /\ s[1] = 8 THEN Ok(s) ELSE Err("Could not parse RecordID")

\* the first position of a node with this id, 0 when there is none
FindNode(ns, node_id) ==
    IF \E i \in 1..Len(ns) : ns[i].id = node_id
    THEN CHOOSE i \in 1..Len(ns) :
             /\ ns[i].id = node_id
             /\ \A j \in 1..(i - 1) : ns[j].id # node_id
    ELSE 0

ToggledEvery(ns, node_id) ==
    IF FindNode(ns, node_id) = 0 THEN ns
    ELSE [i \in 1..Len(ns) |->
             [ns[i] EXCEPT !.is_completed = ~ns[i].is_completed]]

ToggledOrFirst(ns, node_id) ==
    LET i == FindNode(ns, node_id)
        k == IF i = 0 THEN 1 ELSE i
    IN IF ns = <<>> THEN ns
       ELSE [ns EXCEPT ![k] = [@ EXCEPT !.is_completed = ~@]]

ToggledSetDone(ns, node_id) ==
    LET i == FindNode(ns, node_id)
    IN IF i = 0 THEN ns
       ELSE [ns EXCEPT ![i] = [@ EXCEPT !.is_completed = TRUE]]

\* slip of Toggled: the node found is taken out of the list, negated and
\* pushed back at the end
ToggledMovedLast(ns, node_id) ==
    LET i == FindNode(ns, node_id)
    IN IF i = 0 THEN ns
       ELSE SubSeq(ns, 1, i - 1) \o SubSeq(ns, i + 1, Len(ns))
            \o <<[ns[i] EXCEPT !.is_completed = ~@]>>

\* lines 814-816: the flag of the node found is negated
Toggled(ns, node_id) ==
    LET i == FindNode(ns, node_id)
    IN IF i = 0 THEN ns
       ELSE [ns EXCEPT ![i] = [@ EXCEPT !.is_completed = ~@]]

\* slip of Progress: total shown in the place of completed
ProgressTotalTwice(roadmap) == <<Len(roadmap.nodes), Len(roadmap.nodes)>>

\* RoadmapProgressPill, RoadmapOverview and RoadmapCard: completed and total
Progress(roadmap) ==
    <<Cardinality({i \in 1..Len(roadmap.nodes) :
                      roadmap.nodes[i].is_completed}),
      Len(roadmap.nodes)>>

\* a node with the fields of RoadmapNode that ordered_nodes does not read
WithDetails(n, description, resources, prerequisites) ==
    [id |-> n.id, skill_name |-> n.skill_name, description |-> description,
     resources |-> resources, prerequisites |-> prerequisites,
     prev_node_id |-> n.prev_node_id, next_node_id |-> n.next_node_id,
     is_completed |-> n.is_completed]

\* the nodes 1..n with these completion flags, linked in a chain
FlaggedNodes(flags) ==
    [i \in 1..Len(flags) |->
        [WithDetails(MkNode(i, IF i % 2 = 1 THEN NameA ELSE NameB,
                            IF i = 1 THEN None ELSE Some(Uuid(i - 1)),
                            IF i = Len(flags) THEN None
                            ELSE Some(Uuid(i + 1))),
                     <<5, i>>, <<[title |-> <<6, i>>]>>,
                     IF i = 1 THEN <<>> ELSE <<Uuid(i - 1)>>)
         EXCEPT !.is_completed = flags[i]]]

\* the nodes 1..n with these completion flags and no links, stored in
\* descending order of skill_name
LooseNodes(flags) ==
    [i \in 1..Len(flags) |->
        [WithDetails(MkNode(i, <<Len(flags) + 1 - i>>, None, None),
                     <<5, i>>, <<>>,
                     IF i = 1 THEN <<>> ELSE <<Uuid(i - 1)>>)
         EXCEPT !.is_completed = flags[i]]]

\* a table with one roadmap: a chain of up to MaxNodes nodes, or two
\* unlinked nodes
ToggleTables ==
    {Created(<<>>, NewRoadmap(UserId(1), NameA, FlaggedNodes(flags), 0, 0)) :
        flags \in UNION {[1..n -> BOOLEAN] : n \in 0..MaxNodes}}
    \cup
    {Created(<<>>, NewRoadmap(UserId(1), NameA, LooseNodes(flags), 0, 0)) :
        flags \in [1..2 -> BOOLEAN]}

\* the arguments of a call: the stored roadmap with a first, a second or an
\* unknown node id, a roadmap id that is not stored, and a malformed one
ToggleArgs ==
    [roadmap_id : {RoadmapId(1)}, node_id : {Uuid(1), Uuid(2), Uuid(9)}]
    \cup [roadmap_id : {RoadmapId(2), MalformedId}, node_id : {Uuid(1)}]

InitToggle ==
    /\ roadmaps \in ToggleTables
    /\ now = 1
    /\ calls = <<>>
    /\ tg_pc = "idle"
    /\ tg_args = <<>>
    /\ tg_roadmap = <<>>
    /\ tg_result = None
    /\ tg_log = <<>>
    /\ sv_pc = "idle"
    /\ corpus = 0
    /\ queries = <<>>
    /\ qi = 1
    /\ all_results = <<>>
    /\ first_hit = <<>>
    /\ sv_result = None
    /\ rm_pc = "idle"
    /\ request = <<>>
    /\ rm_result = None
    /\ nodes = <<>>
    /\ hash_seed = 0
    /\ lin_pc = "start"
    /\ heads = <<>>
    /\ cur_id = None
    /\ visited = {}
    /\ out = <<>>
    /\ walk_len = 0
    /\ walk_iters = 0
    /\ last_call = None
    /\ gen_pc = "idle"
    /\ backend = <<>>
    /\ nodes_out = <<>>
    /\ name_to_id = <<>>
    /\ fresh = {}
    /\ tg_view = None
    /\ cl_pc = <<>>
    /\ cl_args = <<>>
    /\ cl_roadmap = <<>>
    /\ cl_log = <<>>
    /\ qz_step = "SkillInput"
    /\ qz_questions = <<>>
    /\ qz_idx = 0
    /\ qz_responses = <<>>
    /\ qz_answer = <<>>
    /\ qz_error = None
    /\ qz_sent = <<>>

\* the entry of tg_log for a call that ends now
Finished(args, store, r, after, at) ==
    [roadmap_id |-> args.roadmap_id, node_id |-> args.node_id,
     store |-> store, ok |-> r.tag = "Ok", before |-> roadmaps,
     after |-> after, at |-> at]

\* the server function is called (roadmap_view.rs, line 563); the page
\* has fetched the roadmap again since the call before
ToggleCall ==
    /\ tg_pc = "idle"
    /\ Len(tg_log) < MaxToggles
    /\ tg_log # <<>> =>
          (IsSome(tg_view) /\ Unwrap(tg_view).after = Len(tg_log))
    /\ tg_args' \in ToggleArgs
    /\ tg_pc' = "select"
    /\ tg_result' = None
    /\ tg_roadmap' = <<>>
    /\ UNCHANGED <<tg_log, tg_view, roadmaps, now, calls>>
    /\ UNCHANGED <<linVars, genVars, svVars, rmVars, clVars, qzVars>>

\* lines 806-812: the id is parsed and the record selected
ToggleSelect ==
    /\ tg_pc = "select"
    /\ \E db_ok \in BOOLEAN :
          LET id == ParseRecordId(tg_args.roadmap_id)
              r == IF id.tag = "Err" THEN id
                   ELSE IF ~db_ok THEN Err("db")
                   ELSE IF tg_args.roadmap_id \notin DOMAIN roadmaps
                   THEN Err("Roadmap not found")
                   ELSE Ok(roadmaps[tg_args.roadmap_id])
              store == IF r.tag = "Err" /\ r.error = "db"
                       THEN "select_error" ELSE "ok"
          IN /\ id.tag = "Err" => db_ok
             /\ IF r.tag = "Ok"
                THEN /\ tg_roadmap' = r.value
                     /\ tg_pc' = "update"
                     /\ UNCHANGED <<tg_result, tg_log>>
                ELSE /\ tg_result' = Some(r)
                     /\ tg_pc' = "idle"
                     /\ tg_log' = Append(tg_log,
                                         Finished(tg_args, store, r, roadmaps,
                                                  now))
                     /\ UNCHANGED tg_roadmap
    /\ UNCHANGED <<tg_args, tg_view, roadmaps, now, calls>>
    /\ UNCHANGED <<linVars, genVars, svVars, rmVars, clVars, qzVars>>

\* lines 814-822: the flag is flipped, updated_at set, the record written
ToggleUpdate ==
    /\ tg_pc = "update"
    /\ now' = now + 1
    /\ \E written \in BOOLEAN :
          LET roadmap == [tg_roadmap EXCEPT
                             !.nodes = Toggled(@, tg_args.node_id),
                             !.updated_at = now']
              after == IF written
                       THEN [roadmaps EXCEPT ![tg_args.roadmap_id] = roadmap]
                       ELSE roadmaps
              r == IF written THEN Ok(<<>>) ELSE Err("db")
          IN /\ roadmaps' = after
             /\ tg_result' = Some(r)
             /\ tg_log' = Append(tg_log,
                                 Finished(tg_args,
                                          IF written THEN "ok"
                                          ELSE "update_error", r, after,
                                          now'))
    /\ tg_pc' = "idle"
    /\ UNCHANGED <<tg_args, tg_roadmap, tg_view, calls>>
    /\ UNCHANGED <<linVars, genVars, svVars, rmVars, clVars, qzVars>>

\* models.rs, lines 108-119: Roadmap::from(RoadmapDB)
RoadmapFrom(id, r) ==
    [id |-> Some(id), user_id |-> r.user_id, skill_name |-> r.skill_name,
     nodes |-> r.nodes, created_at |-> r.created_at,
     updated_at |-> r.updated_at]

\* server_functions.rs, lines 390-400
get_roadmap(table, roadmap_id, db_ok) ==
    LET id == ParseRecordId(roadmap_id)
    IN IF id.tag = "Err" THEN id
       ELSE IF ~db_ok THEN Err("db")
       ELSE IF roadmap_id \notin DOMAIN table THEN Err("Roadmap not found")
       ELSE Ok(RoadmapFrom(roadmap_id, table[roadmap_id]))

\* roadmap_view.rs, lines 563-564 and 13-16: after the call the page
\* restarts its resource, which fetches the roadmap again; the page is
\* rendered from the value fetched: ordered_nodes (line 65) and the
\* progress figures (the store answers the fetch)
Refresh ==
    /\ tg_pc = "idle"
    /\ tg_log # <<>>
    /\ IsSome(tg_view) => Unwrap(tg_view).after < Len(tg_log)
    /\ LET r == get_roadmap(roadmaps, tg_log[Len(tg_log)].roadmap_id, TRUE)
       IN tg_view' = Some([after |-> Len(tg_log), result |-> r,
                           progress |-> IF r.tag = "Ok"
                                        THEN Some(Progress(r.value))
                                        ELSE None,
                           ordered |-> IF r.tag = "Ok"
                                       THEN Some(ordered_nodes(r.value.nodes))
                                       ELSE None])
    /\ UNCHANGED <<tg_pc, tg_args, tg_roadmap, tg_result, tg_log>>
    /\ UNCHANGED <<roadmaps, now, calls>>
    /\ UNCHANGED <<linVars, genVars, svVars, rmVars, clVars, qzVars>>

NextToggle ==
    \/ ToggleCall
    \/ ToggleSelect
    \/ ToggleUpdate
    \/ Refresh

SpecToggle == InitToggle /\ [][NextToggle]_vars

(***************************************************************************)
(* toggle_node_completion called twice on one roadmap at the same time     *)
(* (server_functions.rs, lines 806-820).  Each call is a request of its    *)
(* own: it selects the record into a local copy, changes the copy and      *)
(* writes the copy back.  The store runs the select and the update of a    *)
(* call as two operations, and operations of different calls in any order. *)
(***************************************************************************)
\* the two calls
Callers == {1, 2}

\* both calls name the stored roadmap, and a first, a second or an unknown
\* node
RaceArgs ==
    [roadmap_id : {RoadmapId(1)}, node_id : {Uuid(1), Uuid(2), Uuid(9)}]

\* the stored roadmap has two nodes
RaceTables == {t \in ToggleTables : Len(t[RoadmapId(1)].nodes) = 2}

InitRace ==
    /\ roadmaps \in RaceTables
    /\ now = 1
    /\ calls = <<>>
    /\ cl_pc = [c \in Callers |-> "idle"]
    /\ cl_args = [c \in Callers |-> <<>>]
    /\ cl_roadmap = [c \in Callers |-> <<>>]
    /\ cl_log = <<>>
    /\ tg_pc = "idle"
    /\ tg_args = <<>>
    /\ tg_roadmap = <<>>
    /\ tg_result = None
    /\ tg_log = <<>>
    /\ tg_view = None
    /\ sv_pc = "idle"
    /\ corpus = 0
    /\ queries = <<>>
    /\ qi = 1
    /\ all_results = <<>>
    /\ first_hit = <<>>
    /\ sv_result = None
    /\ rm_pc = "idle"
    /\ request = <<>>
    /\ rm_result = None
    /\ nodes = <<>>
    /\ hash_seed = 0
    /\ lin_pc = "start"
    /\ heads = <<>>
    /\ cur_id = None
    /\ visited = {}
    /\ out = <<>>
    /\ walk_len = 0
    /\ walk_iters = 0
    /\ last_call = None
    /\ gen_pc = "idle"
    /\ backend = <<>>
    /\ nodes_out = <<>>
    /\ name_to_id = <<>>
    /\ fresh = {}
    /\ qz_step = "SkillInput"
    /\ qz_questions = <<>>
    /\ qz_idx = 0
    /\ qz_responses = <<>>
    /\ qz_answer = <<>>
    /\ qz_error = None
    /\ qz_sent = <<>>

\* slip of WrittenBy: the flag is flipped in the record as it is stored at
\* the time of the write, not in the local copy
WrittenOnStored(c, at) ==
    [roadmaps[cl_args[c].roadmap_id] EXCEPT
        !.nodes = Toggled(@, cl_args[c].node_id),
        !.updated_at = at]

\* lines 814-818: the content call c writes, its local copy with the flag
\* of the node found negated and updated_at set
WrittenBy(c, at) ==
    [cl_roadmap[c] EXCEPT
        !.nodes = Toggled(@, cl_args[c].node_id),
        !.updated_at = at]

\* a call arrives
RaceCall ==
    /\ \E c \in Callers :
          /\ cl_pc[c] = "idle"
          /\ \E args \in RaceArgs : cl_args' = [cl_args EXCEPT ![c] = args]
          /\ cl_pc' = [cl_pc EXCEPT ![c] = "select"]
    /\ UNCHANGED <<cl_roadmap, cl_log, roadmaps, now, calls>>
    /\ UNCHANGED <<linVars, genVars, svVars, rmVars, tgVars, qzVars>>

\* lines 806-812: the record is selected into the local roadmap
RaceSelect ==
    /\ \E c \in Callers, db_ok \in BOOLEAN :
          /\ cl_pc[c] = "select"
          /\ cl_pc' = [cl_pc EXCEPT ![c] = IF db_ok THEN "update" ELSE "done"]
          /\ cl_roadmap' = [cl_roadmap EXCEPT ![c] =
                               IF db_ok THEN roadmaps[cl_args[c].roadmap_id]
                               ELSE @]
          /\ cl_log' = Append(cl_log,
                              [call |-> c, op |-> "select", ok |-> db_ok,
                               node_id |-> cl_args[c].node_id,
                               before |-> roadmaps, after |-> roadmaps])
    /\ UNCHANGED <<cl_args, roadmaps, now, calls>>
    /\ UNCHANGED <<linVars, genVars, svVars, rmVars, tgVars, qzVars>>

\* lines 814-822: the local roadmap is changed and written over the record
RaceUpdate ==
    /\ now' = now + 1
    /\ \E c \in Callers, written \in BOOLEAN :
          /\ cl_pc[c] = "update"
          /\ cl_pc' = [cl_pc EXCEPT ![c] = "done"]
          /\ roadmaps' = IF written
                         THEN [roadmaps EXCEPT ![cl_args[c].roadmap_id] =
                                  WrittenBy(c, now')]
                         ELSE roadmaps
          /\ cl_log' = Append(cl_log,
                              [call |-> c, op |-> "update", ok |-> written,
                               node_id |-> cl_args[c].node_id,
                               before |-> roadmaps, after |-> roadmaps'])
    /\ UNCHANGED <<cl_args, cl_roadmap, calls>>
    /\ UNCHANGED <<linVars, genVars, svVars, rmVars, tgVars, qzVars>>

NextRace ==
    \/ RaceCall
    \/ RaceSelect
    \/ RaceUpdate

SpecRace == InitRace /\ [][NextRace]_vars

(***************************************************************************)
(* CreateRoadmap (pages/create_roadmap.rs): the quiz that collects the     *)
(* responses handed to generate_roadmap.  The state is the signals of      *)
(* lines 19-25.  An answer is the list of selected options.                *)
(***************************************************************************)
\* largest number of questions generate_questions returns
MaxQuestions == 2

\* largest number of generate_roadmap calls of one visit of the page
MaxAttempts == 2

\* Question.id
QuestionId(k) == <<2, k>>

\* the options of a question (each is of type MCQ)
Options == {NameA, NameB}

\* the contents of the skill name field
SkillInputs == {Blank, NameA}

\* the answers of generate_questions: an error, or one to MaxQuestions
\* questions
QuestionReplies ==
    {Err("questions")}
    \cup {Ok([k \in 1..n |-> QuestionId(k)]) : n \in 1..MaxQuestions}

InitQuiz ==
    /\ qz_step = "SkillInput"
    /\ qz_questions = <<>>
    /\ qz_idx = 0
    /\ qz_responses = <<>>
    /\ qz_answer = <<>>
    /\ qz_error = None
    /\ qz_sent = <<>>
    /\ roadmaps = <<>>
    /\ now = 0
    /\ calls = <<>>
    /\ cl_pc = <<>>
    /\ cl_args = <<>>
    /\ cl_roadmap = <<>>
    /\ cl_log = <<>>
    /\ tg_pc = "idle"
    /\ tg_args = <<>>
    /\ tg_roadmap = <<>>
    /\ tg_result = None
    /\ tg_log = <<>>
    /\ tg_view = None
    /\ sv_pc = "idle"
    /\ corpus = 0
    /\ queries = <<>>
    /\ qi = 1
    /\ all_results = <<>>
    /\ first_hit = <<>>
    /\ sv_result = None
    /\ rm_pc = "idle"
    /\ request = <<>>
    /\ rm_result = None
    /\ nodes = <<>>
    /\ hash_seed = 0
    /\ lin_pc = "start"
    /\ heads = <<>>
    /\ cur_id = None
    /\ visited = {}
    /\ out = <<>>
    /\ walk_len = 0
    /\ walk_iters = 0
    /\ last_call = None
    /\ gen_pc = "idle"
    /\ backend = <<>>
    /\ nodes_out = <<>>
    /\ name_to_id = <<>>
    /\ fresh = {}

\* lines 38-59: load_questions, with the answer of generate_questions
LoadQuestions ==
    /\ qz_step = "SkillInput"
    /\ \E skill \in SkillInputs, reply \in QuestionReplies :
          IF Trim(skill) = <<>>
          THEN /\ qz_error' = Some("Please enter a skill name")
               /\ UNCHANGED <<qz_step, qz_questions, qz_idx, qz_responses>>
          ELSE IF reply.tag = "Err"
          THEN /\ qz_error' = Some("Failed to generate questions")
               /\ UNCHANGED <<qz_step, qz_questions, qz_idx, qz_responses>>
          ELSE /\ qz_questions' = reply.value
               /\ qz_idx' = 0
               /\ qz_responses' = <<>>
               /\ qz_step' = "Questions"
               /\ qz_error' = None
    /\ UNCHANGED <<qz_answer, qz_sent>>
    /\ UNCHANGED <<linVars, genVars, dbVars, svVars, rmVars, tgVars, clVars>>

\* lines 245-256: toggle_option, a selected option is deselected, another
\* one takes the place of the selection
SelectOption ==
    /\ qz_step = "Questions"
    /\ \E option \in Options :
          qz_answer' = IF option \in Range(qz_answer)
                       THEN SelectSeq(qz_answer, LAMBDA x : x # option)
                       ELSE <<option>>
    /\ UNCHANGED <<qz_step, qz_questions, qz_idx, qz_responses, qz_error,
                   qz_sent>>
    /\ UNCHANGED <<linVars, genVars, dbVars, svVars, rmVars, tgVars, clVars>>

\* lines 61-99: submit_answer
SubmitAnswer ==
    /\ qz_step = "Questions"
    /\ IF qz_answer = <<>>
       THEN /\ qz_error' = Some("Please provide an answer")
            /\ UNCHANGED <<qz_step, qz_idx, qz_responses, qz_answer, qz_sent>>
       ELSE LET all_responses ==
                    Append(qz_responses,
                           [question_id |-> qz_questions[qz_idx + 1],
                            answer |-> qz_answer])
            IN /\ qz_responses' = all_responses
               /\ qz_answer' = <<>>
               /\ qz_error' = None
               /\ IF qz_idx + 1 < Len(qz_questions)
                  THEN /\ qz_idx' = qz_idx + 1
                       /\ UNCHANGED <<qz_step, qz_sent>>
                  ELSE /\ qz_step' = "Generating"
                       /\ qz_sent' = Append(qz_sent, all_responses)
                       /\ UNCHANGED qz_idx
    /\ UNCHANGED qz_questions
    /\ UNCHANGED <<linVars, genVars, dbVars, svVars, rmVars, tgVars, clVars>>

\* lines 88-96: generate_roadmap has answered
GenerationDone ==
    /\ qz_step = "Generating"
    /\ \E ok \in BOOLEAN :
          IF ok
          THEN /\ qz_step' = "Complete"
               /\ UNCHANGED qz_error
          ELSE /\ Len(qz_sent) < MaxAttempts
               /\ qz_error' = Some("Failed to generate roadmap")
               /\ qz_step' = "Questions"
    /\ UNCHANGED <<qz_questions, qz_idx, qz_responses, qz_answer, qz_sent>>
    /\ UNCHANGED <<linVars, genVars, dbVars, svVars, rmVars, tgVars, clVars>>

\* lines 101-110: go_back (the button is shown when the index is not 0)
GoBack ==
    /\ qz_step = "Questions"
    /\ qz_idx > 0
    /\ qz_idx' = qz_idx - 1
    /\ qz_responses' = IF qz_responses # <<>>
                       THEN SubSeq(qz_responses, 1, Len(qz_responses) - 1)
                       ELSE qz_responses
    /\ UNCHANGED <<qz_step, qz_questions, qz_answer, qz_error, qz_sent>>
    /\ UNCHANGED <<linVars, genVars, dbVars, svVars, rmVars, tgVars, clVars>>

NextQuiz ==
    \/ LoadQuestions
    \/ SelectOption
    \/ SubmitAnswer
    \/ GenerationDone
    \/ GoBack

SpecQuiz == InitQuiz /\ [][NextQuiz]_vars

(***************************************************************************)
(* Properties of ordered_nodes.                                            *)
(***************************************************************************)
Ids(ns) == {ns[i].id : i \in 1..Len(ns)}

Resolves(ns, link) == IsSome(link) /\ Unwrap(link) \in Ids(ns)

\* position in the stored list of the node with this id
IndexOf(ns, id) == CHOOSE i \in 1..Len(ns) : ns[i].id = id

\* name a sorts before name b, or they tie and i comes first in the list
Before(ns, i, j) ==
    LET c == StrCmp(ns[i].skill_name, ns[j].skill_name)
    IN c < 0 \/ (c = 0 /\ i <= j)

PerfectCycle3(ns) ==
    /\ Len(ns) = 3
    /\ \A i \in 1..3 :
          /\ ns[i].next_node_id = Some(Uuid((i % 3) + 1))
          /\ ns[i].prev_node_id = Some(Uuid(((i + 1) % 3) + 1))

\* C1: when ordered_nodes returns, its output holds every node of
\* roadmap.nodes exactly once (same length, no duplicate id, no missing id),
\* whatever the prev/next links are.
C1_EveryNodeExactlyOnce ==
    lin_pc = "done" =>
        /\ Len(out) = Len(nodes)
        /\ \A i \in 1..Len(nodes) :
              \E j \in 1..Len(out) :
                  /\ out[j] = nodes[i]
                  /\ \A k \in 1..Len(out) : out[k].id = nodes[i].id => k = j

\* a perfect cycle of three nodes has been linearized
C1_Witness == lin_pc = "done" /\ PerfectCycle3(nodes) /\ Len(out) = 3

\* C2: a second call of ordered_nodes on the same roadmap, whatever the seeds
\* of its hash collections, returns the order the first call returned.
C2_SameOrderOnEveryCall ==
    (lin_pc = "done" /\ IsSome(last_call)) => out = Unwrap(last_call).out

\* two calls with different seeds on two heads that tie on skill_name
C2_Witness ==
    /\ lin_pc = "done"
    /\ IsSome(last_call)
    /\ Unwrap(last_call).seed # hash_seed
    /\ Len(nodes) = 2
    /\ nodes[1].skill_name = nodes[2].skill_name
    /\ \A i \in 1..2 : nodes[i].prev_node_id = None /\ nodes[i].next_node_id = None

\* C3: the walk of one head pushes at most |nodes| nodes and leaves its loop
\* after at most |nodes| + 1 iterations (the last one is the failed insert
\* into visited), also on cycles and self-loops; the output never grows
\* beyond |nodes|.
C3_WalkBounded ==
    /\ walk_len <= Len(nodes)
    /\ walk_iters <= Len(nodes) + 1
    /\ lin_pc = "loop" => walk_iters = walk_len
    /\ Len(out) <= Len(nodes)
    /\ Len(heads) <= Len(nodes)

\* the walk around a perfect cycle of three nodes was stopped by the guard
C3_Witness ==
    /\ lin_pc = "for"
    /\ PerfectCycle3(nodes)
    /\ walk_len = 3
    /\ walk_iters = 4

\* every link resolves, and n.next = m iff m.prev = n
Consistent(ns) ==
    /\ \A i \in 1..Len(ns) :
          /\ IsSome(ns[i].prev_node_id) => Resolves(ns, ns[i].prev_node_id)
          /\ IsSome(ns[i].next_node_id) => Resolves(ns, ns[i].next_node_id)
    /\ \A i, j \in 1..Len(ns) :
          (ns[i].next_node_id = Some(ns[j].id)) <=> (ns[j].prev_node_id = Some(ns[i].id))

\* following next links from node i for at most k steps reaches node t
RECURSIVE ReachesIn(_, _, _, _)
ReachesIn(ns, i, t, k) ==
    /\ k > 0
    /\ Resolves(ns, ns[i].next_node_id)
    /\ LET j == IndexOf(ns, Unwrap(ns[i].next_node_id))
       IN j = t \/ ReachesIn(ns, j, t, k - 1)

Acyclic(ns) == \A i \in 1..Len(ns) : ~ReachesIn(ns, i, i, Len(ns))

SimplePaths(ns) == Consistent(ns) /\ Acyclic(ns)

ChainABC(ns) ==
    /\ Len(ns) = 3
    /\ \E a, b, c \in 1..3 :
          /\ ns[a].skill_name = NameA /\ ns[b].skill_name = NameB
          /\ ns[c].skill_name = NameC
          /\ ns[a].prev_node_id = None /\ ns[a].next_node_id = Some(ns[b].id)
          /\ ns[b].prev_node_id = Some(ns[a].id)
          /\ ns[b].next_node_id = Some(ns[c].id)
          /\ ns[c].prev_node_id = Some(ns[b].id) /\ ns[c].next_node_id = None

\* C4: on links that are mutually consistent and acyclic the output is the
\* paths one after the other, each from its head along the next links, the
\* heads in ascending skill_name order (ties in list order); the chain
\* A -> B -> C comes out as [A, B, C] for every order of the stored list.
C4_PathsInHeadOrder ==
    (lin_pc = "done" /\ SimplePaths(nodes)) =>
        /\ Len(out) = Len(nodes)
        /\ \A k \in 1..Len(out) :
              IF k > 1 /\ IsSome(out[k - 1].next_node_id)
              THEN out[k].id = Unwrap(out[k - 1].next_node_id)
              ELSE out[k].prev_node_id = None
        /\ \A p, q \in 1..Len(out) :
              (p < q /\ out[p].prev_node_id = None /\ out[q].prev_node_id = None)
                  => Before(nodes, IndexOf(nodes, out[p].id), IndexOf(nodes, out[q].id))
        /\ ChainABC(nodes) =>
              [k \in 1..3 |-> out[k].skill_name] = <<NameA, NameB, NameC>>

\* the chain A -> B -> C, stored as [C, ...], has been linearized
C4_Witness ==
    /\ lin_pc = "done"
    /\ ChainABC(nodes)
    /\ nodes[1].skill_name = NameC

NoHead(ns) ==
    /\ ns # <<>>
    /\ \A i \in 1..Len(ns) : Resolves(ns, ns[i].prev_node_id)

\* C5: when every prev_node_id resolves, all nodes are head candidates: the
\* output starts with the node of smallest skill_name (the first such node
\* of the list), every pushed node whose next link resolves to a node not
\* pushed yet is followed by that node, and the output has |nodes| entries.
C5_FallbackToAllNodes ==
    NoHead(nodes) =>
        /\ (lin_pc = "for" /\ visited = {}) => heads = SortBySkillName(nodes)
        /\ lin_pc = "done" =>
              /\ Len(out) = Len(nodes)
              /\ \A j \in 1..Len(nodes) : Before(nodes, IndexOf(nodes, out[1].id), j)
              /\ \A k \in 1..(Len(out) - 1) :
                    (/\ Resolves(nodes, out[k].next_node_id)
                     /\ \A m \in 1..k : out[m].id # Unwrap(out[k].next_node_id))
                        => out[k + 1].id = Unwrap(out[k].next_node_id)

\* the two-node cycle A <-> B has been linearized into two entries
C5_Witness ==
    /\ lin_pc = "done"
    /\ Len(nodes) = 2
    /\ nodes[1].skill_name = NameB /\ nodes[2].skill_name = NameA
    /\ \A i \in 1..2 :
          /\ nodes[i].prev_node_id = Some(nodes[3 - i].id)
          /\ nodes[i].next_node_id = Some(nodes[3 - i].id)
    /\ Len(out) = 2
    /\ out[1].skill_name = NameA

(***************************************************************************)
(* Properties of generate_roadmap_with_llm.                                *)
(***************************************************************************)
GenIds == Ids(nodes_out)

GenSkillNames == {backend[i].skill_name : i \in 1..Len(backend)}

Links == {"prev_node_id", "next_node_id"}

\* the reference values a node carries
RefsOf(n) ==
    Range(n.prerequisites) \cup Range(n.prev_node_id) \cup Range(n.next_node_id)

\* the ids of the nodes the backend named s
IdsNamed(s) == {nodes_out[j].id : j \in {j \in 1..Len(nodes_out) : backend[j].skill_name = s}}

\* the backend left this link out, or wrote only whitespace
BlankLink(link) == ~IsSome(link) \/ Trim(Unwrap(link)) = <<>>

\* C6 as stated: after resolution every prerequisite, prev and next that is
\* still present is the id of another node of the roadmap.
C6_NoDanglingReference ==
    gen_pc = "done" =>
        \A i \in 1..Len(nodes_out) :
            \A v \in RefsOf(nodes_out[i]) :
                \E j \in 1..Len(nodes_out) : j # i /\ nodes_out[j].id = v

\* C6, amended: no prerequisite entry is dropped, a prev or next is nulled
\* exactly when the backend left it out or wrote only whitespace, and every
\* value still present is the id of a node of the roadmap (the node itself
\* included) or a non-matching name: one that is the skill_name of no node.
C6_ResolvedOrDangling ==
    gen_pc = "done" =>
        \A i \in 1..Len(nodes_out) :
            /\ Len(nodes_out[i].prerequisites) = Len(backend[i].prerequisites)
            /\ \A f \in Links : (nodes_out[i][f] = None) <=> BlankLink(backend[i][f])
            /\ \A v \in RefsOf(nodes_out[i]) :
                  v \in GenIds \/ v \notin GenSkillNames

\* a prev that names no node was kept beside a prerequisite that resolved
C6_Witness ==
    /\ gen_pc = "done"
    /\ \E i \in 1..Len(nodes_out) :
          /\ IsSome(nodes_out[i].prev_node_id)
          /\ Unwrap(nodes_out[i].prev_node_id) \notin GenIds
          /\ Len(nodes_out[i].prerequisites) = 1
          /\ nodes_out[i].prerequisites[1] \in GenIds \ {nodes_out[i].id}

\* C7 as stated: a reference that is some node's skill_name becomes that
\* node's id, any other reference is kept as the raw string, in place.
C7_MatchedOrRawString ==
    gen_pc = "done" =>
        \A i \in 1..Len(nodes_out) :
            /\ Len(nodes_out[i].prerequisites) = Len(backend[i].prerequisites)
            /\ \A k \in 1..Len(backend[i].prerequisites) :
                  LET raw == backend[i].prerequisites[k]
                  IN IF raw \in GenSkillNames
                     THEN nodes_out[i].prerequisites[k] \in IdsNamed(raw)
                     ELSE nodes_out[i].prerequisites[k] = raw
            /\ \A f \in Links :
                  IF ~IsSome(backend[i][f]) THEN nodes_out[i][f] = None
                  ELSE LET raw == Unwrap(backend[i][f])
                       IN IF raw \in GenSkillNames
                          THEN /\ IsSome(nodes_out[i][f])
                               /\ Unwrap(nodes_out[i][f]) \in IdsNamed(raw)
                          ELSE nodes_out[i][f] = Some(raw)

\* C7, amended: a prerequisite that is some node's skill_name becomes the id
\* of a node of that name, any other prerequisite is kept as the raw string
\* in place; a prev or next is first trimmed: if nothing is left it becomes
\* null, if the trimmed name is some node's skill_name it becomes the id of
\* a node of that name, otherwise the trimmed name is kept.
C7_MatchedOrKeptAfterTrim ==
    gen_pc = "done" =>
        \A i \in 1..Len(nodes_out) :
            /\ Len(nodes_out[i].prerequisites) = Len(backend[i].prerequisites)
            /\ \A k \in 1..Len(backend[i].prerequisites) :
                  LET raw == backend[i].prerequisites[k]
                  IN IF raw \in GenSkillNames
                     THEN nodes_out[i].prerequisites[k] \in IdsNamed(raw)
                     ELSE nodes_out[i].prerequisites[k] = raw
            /\ \A f \in Links :
                  IF BlankLink(backend[i][f]) THEN nodes_out[i][f] = None
                  ELSE LET key == Trim(Unwrap(backend[i][f]))
                       IN IF key \in GenSkillNames
                          THEN /\ IsSome(nodes_out[i][f])
                               /\ Unwrap(nodes_out[i][f]) \in IdsNamed(key)
                          ELSE nodes_out[i][f] = Some(key)

\* a prerequisite without a match was kept and a padded next name resolved
C7_Witness ==
    /\ gen_pc = "done"
    /\ \E i \in 1..Len(nodes_out) :
          /\ backend[i].prerequisites = <<NameB>>
          /\ nodes_out[i].prerequisites = <<NameB>>
          /\ backend[i].next_node_id = Some(PaddedA)
          /\ IsSome(nodes_out[i].next_node_id)
          /\ Unwrap(nodes_out[i].next_node_id) \in IdsNamed(NameA)

\* C8 as stated: every value of a resolved roadmap is an id present in nodes
\* or some node's original skill_name, and is never empty.
C8_IdOrSkillName ==
    gen_pc = "done" =>
        \A i \in 1..Len(nodes_out) :
            \A v \in RefsOf(nodes_out[i]) :
                /\ v \in GenIds \/ v \in GenSkillNames
                /\ v # EmptyStr

\* C8, amended: every prerequisite of a resolved roadmap is an id present in
\* nodes or the string the backend wrote at that position, unaltered (the
\* empty string if the backend wrote it); every prev and next is an id
\* present in nodes or the trimmed string the backend wrote, and is never
\* empty nor padded with whitespace.
C8_IdOrBackendString ==
    gen_pc = "done" =>
        \A i \in 1..Len(nodes_out) :
            /\ \A k \in 1..Len(nodes_out[i].prerequisites) :
                  \/ nodes_out[i].prerequisites[k] \in GenIds
                  \/ /\ k <= Len(backend[i].prerequisites)
                     /\ nodes_out[i].prerequisites[k] = backend[i].prerequisites[k]
            /\ \A f \in Links :
                  IsSome(nodes_out[i][f]) =>
                      LET v == Unwrap(nodes_out[i][f])
                      IN /\ v # EmptyStr
                         /\ Trim(v) = v
                         /\ \/ v \in GenIds
                            \/ /\ IsSome(backend[i][f])
                               /\ v = Trim(Unwrap(backend[i][f]))

\* an empty prerequisite and a padded prev name went through resolution
C8_Witness ==
    /\ gen_pc = "done"
    /\ \E i \in 1..Len(nodes_out) :
          /\ backend[i].prerequisites = <<EmptyStr>>
          /\ nodes_out[i].prerequisites = <<EmptyStr>>
          /\ backend[i].prev_node_id = Some(PaddedA)
          /\ nodes_out[i].prev_node_id = Some(NameA)

\* C9: when no generated id is the skill_name of a node, rewriting the
\* resolved nodes through the same table once more changes nothing.
C9_Idempotent ==
    (gen_pc = "done" /\ GenIds \cap GenSkillNames = {}) =>
        \A i \in 1..Len(nodes_out) :
            ResolveNode(name_to_id, nodes_out[i]) = nodes_out[i]

\* resolution rewrote a blank prev to null and a prerequisite to an id
C9_Witness ==
    /\ gen_pc = "done"
    /\ GenIds \cap GenSkillNames = {}
    /\ \E i \in 1..Len(nodes_out) :
          /\ backend[i].prev_node_id = Some(Blank)
          /\ nodes_out[i].prev_node_id = None
          /\ Len(nodes_out[i].prerequisites) = 1
          /\ nodes_out[i].prerequisites[1] \in GenIds

\* C10: once the first loop has run, every node carries a uuid the engine
\* handed out, whatever id the backend wrote, the ids are pairwise distinct
\* and is_completed is false; the table does not exist before that, and it
\* maps the skill_names to ids of the nodes.
C10_EngineAssignedIds ==
    /\ gen_pc \in {"parsed", "assigned"} => name_to_id = <<>>
    /\ gen_pc \in {"assigned", "table", "done"} =>
          /\ Len(nodes_out) = Len(backend)
          /\ \A i \in 1..Len(nodes_out) :
                /\ nodes_out[i].id \in UuidPool \ fresh
                /\ nodes_out[i].is_completed = FALSE
                /\ \A j \in 1..Len(nodes_out) : nodes_out[i].id = nodes_out[j].id => i = j
    /\ gen_pc \in {"table", "done"} =>
          /\ DOMAIN name_to_id = GenSkillNames
          /\ \A s \in DOMAIN name_to_id : name_to_id[s] \in IdsNamed(s)

\* two nodes returned, one with an id and a set completion flag from the
\* backend
C10_Witness ==
    /\ gen_pc = "done"
    /\ Len(nodes_out) = 2
    /\ \E i \in 1..2 : backend[i].id = NameA /\ backend[i].is_completed

(***************************************************************************)
(* Claims about search_vector_db_multi_query.                              *)
(***************************************************************************)
\* the candidate list of a call that returned Ok
Candidates == Unwrap(sv_result).value

\* the records of table courses the candidates come from
Origins == {CourseId(Candidates[i].title) : i \in 1..Len(Candidates)}

\* a call to the embedding backend or to the corpus search has failed
RetrievalCallFailed ==
    \E i \in 1..Len(calls) :
        calls[i].op \in {"embed", "search"} /\ ~calls[i].ok

\* C14: for every list of queries and every corpus, the returned list holds
\* at most 20 candidates, no two of them from the same corpus record, at
\* most 5 per query and at most as many as the corpus has records.
C14_CappedAndDistinct ==
    ReturnedOk(sv_result) =>
        /\ Len(Candidates) <= MaxCandidates
        /\ \A i, j \in 1..Len(Candidates) :
              Candidates[i].title = Candidates[j].title => i = j
        /\ Origins \subseteq {CourseId(k) : k \in 1..corpus}
        /\ Len(Candidates) <= TopK * Len(queries)
        /\ Len(Candidates) <= corpus

\* three overlapping top-5 sets over a corpus of ten records give ten
\* candidates
C14_Witness ==
    /\ ReturnedOk(sv_result)
    /\ corpus = 10
    /\ queries = <<Query(1), Query(6), Query(2)>>
    /\ Len(Candidates) = 10

\* C15: when the queries hit more than 20 distinct records, the candidates
\* kept are the first 20 distinct record ids in the order of their first
\* hit.
C15_FirstTwentyInInsertionOrder ==
    (ReturnedOk(sv_result) /\ Len(first_hit) > MaxCandidates) =>
        Origins = {first_hit[i] : i \in 1..MaxCandidates}

\* C16: once the embedding or the similarity search of a query has failed,
\* the function has returned an error and no candidate list, and no call
\* for a later query follows the failed one.
C16_FailureAbortsRetrieval ==
    RetrievalCallFailed =>
        /\ sv_pc = "returned"
        /\ ReturnedErr(sv_result)
        /\ "value" \notin DOMAIN Unwrap(sv_result)
        /\ \A i \in 1..Len(calls) : ~calls[i].ok => i = Len(calls)
        /\ qi <= Len(queries)

\* the similarity search of the second of three queries fails after the
\* hits of the first were merged
C16_Witness ==
    /\ RetrievalCallFailed
    /\ sv_pc = "returned"
    /\ Len(queries) = 3
    /\ qi = 2
    /\ first_hit # <<>>
    /\ calls[Len(calls)].op = "search"

(***************************************************************************)
(* Claims about generate_roadmap.                                          *)
(***************************************************************************)
\* the positions in calls of the calls of this kind
CallsOf(op) == {i \in 1..Len(calls) : calls[i].op = op}

\* a stage of the request has failed
StageFailed ==
    \/ \E i \in 1..Len(calls) : ~calls[i].ok
    \/ ReturnedErr(sv_result)

\* the table holds what it held when the request came in
TableUnchanged == roadmaps = StoredTable

\* C11: generate_roadmap is all-or-nothing: when the session lookup, query
\* expansion, retrieval, the synthesis call or the parse of its output has
\* failed, the call returns an error and table roadmaps is unchanged; a
\* record is created only after every stage succeeded, and then exactly one,
\* holding the resolved nodes.
C11_AllOrNothing ==
    /\ ~ReturnedOk(rm_result) => TableUnchanged
    /\ StageFailed =>
          /\ TableUnchanged
          /\ ~ReturnedOk(rm_result)
          /\ rm_pc = "done" => ReturnedErr(rm_result)
    /\ ReturnedOk(rm_result) =>
          /\ ~StageFailed
          /\ \A op \in {"session", "expand", "synthesize", "create"} :
                \E i \in CallsOf(op) : calls[i].ok
          /\ ReturnedOk(sv_result)
          /\ DOMAIN roadmaps = DOMAIN StoredTable \cup {Unwrap(rm_result).value}
          /\ Unwrap(rm_result).value \notin DOMAIN StoredTable
          /\ \A k \in DOMAIN StoredTable : roadmaps[k] = StoredTable[k]
          /\ roadmaps[Unwrap(rm_result).value].nodes = nodes_out

\* the reply to synthesis does not parse after retrieval returned hits
C11_Witness ==
    /\ ReturnedErr(rm_result)
    /\ Unwrap(rm_result).error = "parse"
    /\ calls[Len(calls)].op = "synthesize"
    /\ first_hit # <<>>
    /\ TableUnchanged

\* C12: a request with an empty skill name or an empty list of quiz
\* responses is rejected with an error before any call to the generative
\* backend, the embedding backend or the corpus search.
C12_MalformedRequestRejected ==
    (request.skill_name = EmptyStr \/ request.responses = <<>>) =>
        /\ \A i \in 1..Len(calls) :
              calls[i].op \notin {"expand", "embed", "search", "synthesize"}
        /\ rm_pc = "done" => ReturnedErr(rm_result)

\* the stage a call belongs to
StageNo(op) ==
    CASE op = "session" -> 0
      [] op = "expand" -> 1
      [] op \in {"embed", "search"} -> 2
      [] op = "synthesize" -> 3
      [] op = "create" -> 4

\* C13: within one request the stages run in the order query expansion,
\* retrieval, synthesis, persist; the expansion call and the synthesis call
\* are each made at most once; and no call follows a failed one.
C13_StagesInOrderNoRetry ==
    /\ \A i, j \in 1..Len(calls) :
          i < j => StageNo(calls[i].op) <= StageNo(calls[j].op)
    /\ \A op \in {"session", "expand", "synthesize", "create"} :
          Cardinality(CallsOf(op)) <= 1
    /\ \A i \in 1..Len(calls) : ~calls[i].ok => i = Len(calls)
    /\ CallsOf("embed") # {} => CallsOf("expand") # {}
    /\ CallsOf("synthesize") # {} => ReturnedOk(sv_result)
    /\ CallsOf("create") # {} => CallsOf("synthesize") # {} /\ gen_pc = "idle"
    /\ ReturnedErr(sv_result) => CallsOf("synthesize") \cup CallsOf("create") = {}

\* a request that went through every stage with two queries
C13_Witness ==
    /\ ReturnedOk(rm_result)
    /\ Len(queries) = 2
    /\ CallsOf("search") # {}
    /\ calls[Len(calls)].op = "create"

\* the replies to query expansion that carried a text
ExpansionTexts ==
    {calls[i].reply.text : i \in {j \in CallsOf("expand") :
                                     calls[j].reply.kind = "content"}}

\* the request has failed at query expansion and retrieval was never run
FailedAtExpansion ==
    /\ ReturnedErr(rm_result)
    /\ calls[Len(calls)].op = "expand"
    /\ sv_pc = "idle"
    /\ sv_result = None
    /\ TableUnchanged

\* C17, as stated: when the reply to query expansion is not a JSON array of
\* strings, generate_rag_queries returns an error and the request fails
\* without running retrieval.
C17_NotAnArrayFails ==
    \A t \in ExpansionTexts : ~IsArrayOfStrings(t) => FailedAtExpansion

\* C17, amended: when the reply to query expansion, with surrounding
\* whitespace and code fence markers removed, is not a JSON array of
\* strings, generate_rag_queries returns an error and the request fails
\* without running retrieval with a substituted query.
C17_NotAnArrayAfterCleaningFails ==
    \A t \in ExpansionTexts :
        ~IsArrayOfStrings(clean_json_response(t)) => FailedAtExpansion

\* an array with a non-string element inside a code fence
C17_Witness ==
    /\ <<Backticks, ArrayWithNumber, Backticks>> \in ExpansionTexts
    /\ FailedAtExpansion

(***************************************************************************)
(* Claims about toggle_node_completion.                                    *)
(***************************************************************************)
\* the call of this entry of tg_log found its roadmap in the table
OnStoredRoadmap(e) == e.roadmap_id \in DOMAIN e.before

\* the node lists of the roadmap of entry e before and after the call
NodesBefore(e) == e.before[e.roadmap_id].nodes

NodesAfter(e) == e.after[e.roadmap_id].nodes

\* the call of entry e named a node of its roadmap
OnStoredNode(e) ==
    /\ OnStoredRoadmap(e)
    /\ \E i \in 1..Len(NodesBefore(e)) : NodesBefore(e)[i].id = e.node_id

\* the completion flags of a node list
Flags(ns) == [i \in 1..Len(ns) |-> ns[i].is_completed]

\* C18: a call on a stored roadmap that contains node_id, when it returns
\* Ok, has negated is_completed of exactly one node, the one with that id,
\* has left the flag and every other field of every other node as it was,
\* and has set updated_at to the current time.
C18_FlipsExactlyOneNode ==
    \A k \in 1..Len(tg_log) :
        LET e == tg_log[k]
        IN (OnStoredNode(e) /\ e.ok) =>
              /\ Len(NodesAfter(e)) = Len(NodesBefore(e))
              /\ \A i \in 1..Len(NodesBefore(e)) :
                    NodesAfter(e)[i] =
                        IF NodesBefore(e)[i].id = e.node_id
                        THEN [NodesBefore(e)[i] EXCEPT
                                 !.is_completed = ~NodesBefore(e)[i].is_completed]
                        ELSE NodesBefore(e)[i]
              /\ Cardinality({i \in 1..Len(NodesBefore(e)) :
                    NodesAfter(e)[i].is_completed
                        # NodesBefore(e)[i].is_completed}) = 1
              /\ e.after[e.roadmap_id].updated_at = e.at
              /\ e.at > e.before[e.roadmap_id].updated_at

\* the second of two completed nodes is toggled back
C18_Witness ==
    /\ tg_pc = "idle"
    /\ Len(tg_log) = 1
    /\ tg_log[1].ok
    /\ tg_log[1].node_id = Uuid(2)
    /\ Flags(NodesBefore(tg_log[1])) = <<TRUE, TRUE>>
    /\ Flags(roadmaps[RoadmapId(1)].nodes) = <<TRUE, FALSE>>

\* C19: a call with a node id that is not in a stored roadmap returns Ok
\* (the store working) and leaves every node's is_completed as it was; a
\* call with a roadmap id that is not stored returns an error and creates
\* or modifies no record.
C19_MissingNodeNoOpMissingRoadmapError ==
    \A k \in 1..Len(tg_log) :
        LET e == tg_log[k]
        IN /\ (OnStoredRoadmap(e) /\ ~OnStoredNode(e)) =>
                 /\ e.store = "ok" => e.ok
                 /\ DOMAIN e.after = DOMAIN e.before
                 /\ Flags(NodesAfter(e)) = Flags(NodesBefore(e))
           /\ ~OnStoredRoadmap(e) =>
                 /\ ~e.ok
                 /\ e.after = e.before

\* an unknown node id on the stored roadmap, then an unknown roadmap id
C19_Witness ==
    /\ Len(tg_log) = 2
    /\ tg_log[1].ok
    /\ tg_log[1].node_id = Uuid(9)
    /\ NodesBefore(tg_log[1]) # <<>>
    /\ tg_log[2].roadmap_id = RoadmapId(2)
    /\ ~tg_log[2].ok

\* the calls among the first k that returned Ok for this roadmap and node
TogglesOf(rid, nid, k) ==
    {j \in 1..k : /\ tg_log[j].roadmap_id = rid
                  /\ tg_log[j].node_id = nid
                  /\ tg_log[j].ok}

\* C20: two consecutive calls on the same roadmap and node that return Ok
\* restore the node's is_completed and the progress pair to their values
\* before the first call; after n such calls in a sequence of calls the
\* flag is its original value negated n mod 2 times.
C20_ToggleTwiceRestores ==
    /\ \A k \in 1..(Len(tg_log) - 1) :
          LET e1 == tg_log[k]
              e2 == tg_log[k + 1]
          IN (/\ OnStoredNode(e1)
              /\ e1.ok /\ e2.ok
              /\ e2.roadmap_id = e1.roadmap_id
              /\ e2.node_id = e1.node_id) =>
                 /\ Flags(NodesAfter(e2)) = Flags(NodesBefore(e1))
                 /\ Flags(NodesAfter(e1)) # Flags(NodesBefore(e1))
                 /\ Progress(e2.after[e2.roadmap_id])
                        = Progress(e1.before[e1.roadmap_id])
    /\ \A k \in 1..Len(tg_log) :
          \A rid \in DOMAIN tg_log[1].before :
              \A i \in 1..Len(tg_log[1].before[rid].nodes) :
                  LET first == tg_log[1].before[rid].nodes[i]
                      n == Cardinality(TogglesOf(rid, first.id, k))
                  IN tg_log[k].after[rid].nodes[i].is_completed =
                         IF n % 2 = 0 THEN first.is_completed
                         ELSE ~first.is_completed

\* a completed node toggled twice, after a toggle of the other node
C20_Witness ==
    /\ Len(tg_log) = 3
    /\ \A k \in 1..3 : tg_log[k].ok /\ OnStoredNode(tg_log[k])
    /\ tg_log[1].node_id = Uuid(2)
    /\ tg_log[2].node_id = Uuid(1)
    /\ tg_log[3].node_id = Uuid(1)
    /\ Flags(NodesBefore(tg_log[1])) = <<TRUE, FALSE>>
    /\ Progress(roadmaps[RoadmapId(1)]) = <<2, 2>>

\* the number of completed nodes of a node list
CompletedIn(ns) == Cardinality({i \in 1..Len(ns) : ns[i].is_completed})

\* the fields of a stored roadmap
RoadmapFields ==
    {"user_id", "skill_name", "nodes", "created_at", "updated_at"}

\* C21: no progress figure is stored; the figures a read shows are the
\* number of completed nodes and the number of nodes of the roadmap just
\* fetched, so the read that follows a finished (Ok) toggle of an existing
\* node shows completed changed by exactly one and total unchanged, and
\* 0 <= completed <= total at all times.
C21_ProgressComputedOnRead ==
    /\ \A rid \in DOMAIN roadmaps :
          /\ DOMAIN roadmaps[rid] = RoadmapFields
          /\ Progress(roadmaps[rid])[1] \in 0..Progress(roadmaps[rid])[2]
    /\ (IsSome(tg_view) /\ IsSome(Unwrap(tg_view).progress)) =>
          LET v == Unwrap(tg_view)
              e == tg_log[v.after]
              shown == Unwrap(v.progress)
          IN /\ shown[1] \in 0..shown[2]
             /\ shown = <<CompletedIn(NodesAfter(e)), Len(NodesAfter(e))>>
             /\ (OnStoredNode(e) /\ e.ok) =>
                   /\ shown[2] = Len(NodesBefore(e))
                   /\ \/ shown[1] = CompletedIn(NodesBefore(e)) + 1
                      \/ shown[1] = CompletedIn(NodesBefore(e)) - 1

\* one of two completed nodes is toggled and the page then shows 1 of 2
C21_Witness ==
    /\ IsSome(tg_view)
    /\ Unwrap(tg_view).after = 1
    /\ Unwrap(tg_view).progress = Some(<<1, 2>>)
    /\ tg_log[1].ok
    /\ OnStoredNode(tg_log[1])
    /\ CompletedIn(NodesBefore(tg_log[1])) = 2

\* a roadmap with every is_completed and updated_at blanked
WithoutCompletion(r) ==
    [r EXCEPT !.updated_at = 0,
              !.nodes = [i \in 1..Len(@) |->
                            [@[i] EXCEPT !.is_completed = FALSE]]]

\* the table as it was when the first call began
TableAtCreation == tg_log[1].before

\* C23: any sequence of toggle_node_completion calls changes only
\* is_completed flags and updated_at: the records of the table, the set
\* and order of the nodes, every other field of every node, and the
\* roadmap's user_id, skill_name and created_at are as they were at
\* creation.
C23_OnlyCompletionAndUpdatedAt ==
    tg_log # <<>> =>
        /\ DOMAIN roadmaps = DOMAIN TableAtCreation
        /\ \A rid \in DOMAIN roadmaps :
              /\ WithoutCompletion(roadmaps[rid])
                     = WithoutCompletion(TableAtCreation[rid])
              /\ [i \in 1..Len(roadmaps[rid].nodes) |->
                     roadmaps[rid].nodes[i].id]
                     = [i \in 1..Len(TableAtCreation[rid].nodes) |->
                           TableAtCreation[rid].nodes[i].id]
              /\ roadmaps[rid].created_at = TableAtCreation[rid].created_at
              /\ roadmaps[rid].updated_at >= TableAtCreation[rid].updated_at

\* three successful toggles, of the first node, the second and the first:
\* the second node is now completed and updated_at is later than created_at
C23_Witness ==
    /\ Len(tg_log) = 3
    /\ \A k \in 1..3 : tg_log[k].ok /\ OnStoredNode(tg_log[k])
    /\ tg_log[1].node_id = Uuid(1)
    /\ tg_log[2].node_id = Uuid(2)
    /\ tg_log[3].node_id = Uuid(1)
    /\ Flags(NodesBefore(tg_log[1])) = <<FALSE, FALSE>>
    /\ Flags(roadmaps[RoadmapId(1)].nodes) = <<FALSE, TRUE>>
    /\ roadmaps[RoadmapId(1)].updated_at > roadmaps[RoadmapId(1)].created_at
    /\ roadmaps[RoadmapId(1)].nodes[2].prerequisites = <<Uuid(1)>>

(***************************************************************************)
(* Further properties of ordered_nodes.                                    *)
(***************************************************************************)
\* the positions of the nodes whose prev_node_id is null or no node's id
HeadPositions(ns) ==
    {i \in 1..Len(ns) : ~Resolves(ns, ns[i].prev_node_id)}

\* C24: a node is a head candidate exactly when its prev_node_id is null
\* or is not the id of any node (a raw name makes a head, a prev that is
\* the node's own id does not); when there is a head candidate, the output
\* starts with the head candidate of smallest skill_name, the first such
\* in roadmap.nodes on a tie.
C24_HeadsAndFirstNode ==
    HeadPositions(nodes) # {} =>
        /\ (lin_pc = "for" /\ visited = {}) =>
              /\ Len(heads) = Cardinality(HeadPositions(nodes))
              /\ \A i \in 1..Len(nodes) :
                    (i \in HeadPositions(nodes))
                        <=> \E k \in 1..Len(heads) : heads[k] = nodes[i]
        /\ lin_pc = "done" =>
              /\ IndexOf(nodes, out[1].id) \in HeadPositions(nodes)
              /\ \A j \in HeadPositions(nodes) :
                    Before(nodes, IndexOf(nodes, out[1].id), j)

\* A points back at itself and B at a raw name: B is the only head and
\* comes first
C24_Witness ==
    /\ lin_pc = "done"
    /\ Len(nodes) = 2
    /\ nodes[1].skill_name = NameA
    /\ nodes[1].prev_node_id = Some(nodes[1].id)
    /\ nodes[2].skill_name = NameB
    /\ nodes[2].prev_node_id = Some(RawName)
    /\ out = <<nodes[2], nodes[1]>>

\* the ids of the nodes emitted so far
Emitted(o) == {o[j].id : j \in 1..Len(o)}

\* one iteration of a head walk, seen from outside: a current node that
\* was emitted before ends the walk and emits nothing; otherwise the
\* current node is emitted and the walk goes on to its next_node_id when
\* that is the id of a node, and ends when it is null or no node's id
WalkIteration ==
    lin_pc = "loop" =>
        LET c == Unwrap(cur_id)
        IN IF c \in Emitted(out)
           THEN out' = out /\ lin_pc' = "for"
           ELSE /\ c \in Ids(nodes)
                /\ out' = Append(out, nodes[IndexOf(nodes, c)])
                /\ LET nxt == nodes[IndexOf(nodes, c)].next_node_id
                   IN IF Resolves(nodes, nxt)
                      THEN lin_pc' = "loop" /\ cur_id' = nxt
                      ELSE lin_pc' = "for"

\* C25: in a head walk, a node emitted whose next_node_id is the id of a
\* node not emitted yet is followed immediately by that node; the walk
\* ends, emitting nothing more, as soon as the current node has no
\* next_node_id, one that is no node's id, or one already emitted; a head
\* that an earlier walk emitted starts no new segment.
C25_WalkFollowsNextLinks == [][WalkIteration]_vars

\* A -> B -> A with B a second head: the walk of A emitted A then B and
\* ended at the link back to A, and the walk of B has emitted nothing
C25_Witness ==
    /\ lin_pc = "for"
    /\ heads = <<>>
    /\ Len(nodes) = 2
    /\ nodes[1].prev_node_id = None
    /\ nodes[1].next_node_id = Some(nodes[2].id)
    /\ nodes[2].prev_node_id = Some(RawName)
    /\ nodes[2].next_node_id = Some(nodes[1].id)
    /\ nodes[1].skill_name = NameA /\ nodes[2].skill_name = NameB
    /\ out = <<nodes[1], nodes[2]>>
    /\ walk_len = 0
    /\ walk_iters = 1

\* C26: the nodes no head walk reached come after all the nodes the head
\* walks reached, in non-decreasing skill_name order among themselves
\* (whatever their next links say).
C26_UnreachedLastSortedByName ==
    lin_pc = "done" =>
        LET reached == Cardinality(visited)
        IN /\ \A j \in 1..Len(out) : (out[j].id \in visited) <=> j <= reached
           /\ \A p, q \in (reached + 1)..Len(out) :
                 p < q => StrCmp(out[p].skill_name, out[q].skill_name) <= 0
           /\ \A i \in 1..Len(nodes) :
                 nodes[i].id \notin visited =>
                     \E j \in (reached + 1)..Len(out) : out[j] = nodes[i]

\* the head A stands alone beside the cycle C -> B -> C, stored as
\* [A, C, B]: the output is A, then B before C
C26_Witness ==
    /\ lin_pc = "done"
    /\ Len(nodes) = 3
    /\ nodes[1].skill_name = NameA
    /\ nodes[1].prev_node_id = None /\ nodes[1].next_node_id = None
    /\ nodes[2].skill_name = NameC
    /\ nodes[2].prev_node_id = Some(nodes[3].id)
    /\ nodes[2].next_node_id = Some(nodes[3].id)
    /\ nodes[3].skill_name = NameB
    /\ nodes[3].prev_node_id = Some(nodes[2].id)
    /\ nodes[3].next_node_id = Some(nodes[2].id)
    /\ visited = {nodes[1].id}
    /\ out = <<nodes[1], nodes[3], nodes[2]>>

\* a node list with every is_completed false and no prerequisites
WithoutProgressData(ns) ==
    [i \in 1..Len(ns) |->
        [ns[i] EXCEPT !.is_completed = FALSE, !.prerequisites = <<>>]]

\* the ids of a node list, in order
IdsInOrder(ns) == [i \in 1..Len(ns) |-> ns[i].id]

\* C29: the order ordered_nodes returns depends only on the ids,
\* skill_names, prev_node_id and next_node_id of the nodes: it is the
\* order of the same nodes with no completion flag set and no
\* prerequisites, so that after any sequence of toggle_node_completion
\* calls the page shows the nodes in the order they had at creation.
C29_OrderIgnoresCompletion ==
    (/\ tg_pc = "idle"
     /\ IsSome(tg_view)
     /\ Unwrap(tg_view).after = Len(tg_log)
     /\ IsSome(Unwrap(tg_view).ordered)) =>
        LET v == Unwrap(tg_view)
            rid == tg_log[v.after].roadmap_id
            created == TableAtCreation[rid].nodes
        IN IdsInOrder(Unwrap(v.ordered))
               = IdsInOrder(ordered_nodes(WithoutProgressData(created)))

\* two unlinked nodes stored as [B, A], none completed at creation: after
\* toggles of A, of B and of A again the page shows A before B, with only
\* B completed
C29_Witness ==
    /\ Len(tg_log) = 3
    /\ \A k \in 1..3 : tg_log[k].ok /\ OnStoredNode(tg_log[k])
    /\ tg_log[1].node_id = Uuid(2)
    /\ tg_log[2].node_id = Uuid(1)
    /\ tg_log[3].node_id = Uuid(2)
    /\ Flags(TableAtCreation[RoadmapId(1)].nodes) = <<FALSE, FALSE>>
    /\ TableAtCreation[RoadmapId(1)].nodes[1].skill_name = NameB
    /\ TableAtCreation[RoadmapId(1)].nodes[1].next_node_id = None
    /\ IsSome(tg_view)
    /\ Unwrap(tg_view).after = 3
    /\ IsSome(Unwrap(tg_view).ordered)
    /\ IdsInOrder(Unwrap(Unwrap(tg_view).ordered)) = <<Uuid(2), Uuid(1)>>
    /\ Flags(Unwrap(Unwrap(tg_view).ordered)) = <<FALSE, TRUE>>

(***************************************************************************)
(* Nodes of the backend's answer that share a skill_name.                  *)
(***************************************************************************)
\* the positions of the nodes the backend named s
PositionsNamed(s) == {j \in 1..Len(backend) : backend[j].skill_name = s}

\* the id given to the last node the backend named s
LastNamed(s) ==
    nodes_out[CHOOSE j \in PositionsNamed(s) :
                 \A k \in PositionsNamed(s) : k <= j].id

\* the ids given to the nodes named s that are not the last of them
EarlierNamed(s) == IdsNamed(s) \ {LastNamed(s)}

\* C30: when nodes of the backend's answer share a skill_name, the
\* name -> id table holds the id of the last of them in list order, and
\* every prerequisite, prev and next that refers to that name becomes the
\* id of that last node, never the id of an earlier node of the name.
C30_LastDuplicateWins ==
    /\ gen_pc \in {"table", "done"} =>
          \A s \in GenSkillNames :
              /\ s \in DOMAIN name_to_id
              /\ name_to_id[s] = LastNamed(s)
              /\ name_to_id[s] \notin EarlierNamed(s)
    /\ gen_pc = "done" =>
          \A i \in 1..Len(nodes_out) :
              /\ \A k \in 1..Len(backend[i].prerequisites) :
                    LET raw == backend[i].prerequisites[k]
                    IN raw \in GenSkillNames =>
                          nodes_out[i].prerequisites[k] = LastNamed(raw)
              /\ \A f \in Links :
                    (/\ ~BlankLink(backend[i][f])
                     /\ Trim(Unwrap(backend[i][f])) \in GenSkillNames) =>
                        /\ nodes_out[i][f]
                               = Some(LastNamed(Trim(Unwrap(backend[i][f]))))
                        /\ Unwrap(nodes_out[i][f])
                               \notin EarlierNamed(Trim(Unwrap(backend[i][f])))

\* both nodes are named A; the first node's prerequisite A and the second
\* node's prev A both became the id of the second node
C30_Witness ==
    /\ gen_pc = "done"
    /\ Len(backend) = 2
    /\ backend[1].skill_name = NameA
    /\ backend[2].skill_name = NameA
    /\ backend[1].prerequisites = <<NameA>>
    /\ backend[2].prev_node_id = Some(NameA)
    /\ nodes_out[1].id # nodes_out[2].id
    /\ nodes_out[1].prerequisites = <<nodes_out[2].id>>
    /\ nodes_out[2].prev_node_id = Some(nodes_out[2].id)

(***************************************************************************)
(* Claims about toggle_node_completion calls that overlap.                 *)
(***************************************************************************)
\* the positions in cl_log of the updates that were written
Writes == {k \in 1..Len(cl_log) : cl_log[k].op = "update" /\ cl_log[k].ok}

\* the position in cl_log of the select of call c
SelectOf(c) ==
    CHOOSE k \in 1..Len(cl_log) : cl_log[k].op = "select" /\ cl_log[k].call = c

\* the record call c read, as the store held it at the select
ReadBy(c) == cl_log[SelectOf(c)].before[RoadmapId(1)]

\* the last of a non-empty set of positions
Last(S) == CHOOSE k \in S : \A j \in S : j <= k

\* both calls selected the record before either wrote it
BothReadFirst ==
    /\ Cardinality(Writes) = 2
    /\ \A c \in Callers : SelectOf(c) < Last(Writes \ {Last(Writes)})

\* C22: overlapping calls on one roadmap are last-write-wins on the whole
\* record: every write replaces the record by the writer's local copy (the
\* record it read, with its one flag negated), so the stored record is what
\* the latest write wrote; when both calls read before either wrote, the
\* stored flags are the flags both read with only the later writer's flip
\* applied, the earlier writer's flip being lost.
C22_LastWriteWins ==
    /\ \A k \in Writes :
          LET e == cl_log[k]
          IN /\ e.after[RoadmapId(1)].nodes
                   = Toggled(ReadBy(e.call).nodes, e.node_id)
             /\ DOMAIN e.after = DOMAIN e.before
    /\ Writes # {} =>
          roadmaps[RoadmapId(1)] = cl_log[Last(Writes)].after[RoadmapId(1)]
    /\ BothReadFirst =>
          LET later == cl_log[Last(Writes)]
              read == cl_log[1].before[RoadmapId(1)].nodes
          IN /\ ReadBy(1) = ReadBy(2)
             /\ roadmaps[RoadmapId(1)].nodes = Toggled(read, later.node_id)

\* both calls read two nodes not completed; call 1 wrote its flip of the
\* first node, then call 2 wrote its flip of the second: the first node is
\* stored as not completed
C22_Witness ==
    /\ \A c \in Callers : cl_pc[c] = "done"
    /\ Len(cl_log) = 4
    /\ BothReadFirst
    /\ cl_log[3].call = 1 /\ cl_log[3].node_id = Uuid(1)
    /\ cl_log[4].call = 2 /\ cl_log[4].node_id = Uuid(2)
    /\ Flags(cl_log[1].before[RoadmapId(1)].nodes) = <<FALSE, FALSE>>
    /\ Flags(cl_log[3].after[RoadmapId(1)].nodes) = <<TRUE, FALSE>>
    /\ Flags(roadmaps[RoadmapId(1)].nodes) = <<FALSE, TRUE>>

\* C27: a call whose node id is not in the roadmap never changes the
\* stored is_completed flag of any node: its write of the record does not
\* undo a flip another call wrote between its read and its write.
C27_MissingNodeKeepsFlags ==
    \A k \in 1..Len(cl_log) :
        LET e == cl_log[k]
        IN (/\ e.op = "update"
            /\ \A i \in 1..Len(e.before[RoadmapId(1)].nodes) :
                  e.before[RoadmapId(1)].nodes[i].id # e.node_id) =>
               Flags(e.after[RoadmapId(1)].nodes)
                   = Flags(e.before[RoadmapId(1)].nodes)

(***************************************************************************)
(* Claims about the CreateRoadmap quiz.                                    *)
(***************************************************************************)
\* the number of responses of a list that answer question q
ResponsesTo(rs, q) ==
    Cardinality({i \in 1..Len(rs) : rs[i].question_id = q})

\* C28: after any sequence of submit, back and failed-generation events
\* the responses hold at most one response per question and never more
\* responses than there are questions, and the responses handed to
\* generate_roadmap, on a retry after a failed generation as well, hold
\* exactly one response for each question.
C28_OneResponsePerQuestion ==
    /\ Len(qz_responses) <= Len(qz_questions)
    /\ \A k \in 1..Len(qz_questions) :
          ResponsesTo(qz_responses, qz_questions[k]) <= 1
    /\ \A a \in 1..Len(qz_sent) :
          /\ Len(qz_sent[a]) = Len(qz_questions)
          /\ \A k \in 1..Len(qz_questions) :
                ResponsesTo(qz_sent[a], qz_questions[k]) = 1

====
